---- MODULE Spec2Model ----
(***************************************************************************)
(* Model of the interface-description update script                        *)
(* (s_update_interface_desc.py): script_main from its first line to its    *)
(* last, extract_cdp_data and add_port_channels, with the string helpers   *)
(* of securecrt_tools.utilities that they call; and of CRTScript.connect   *)
(* (securecrt_tools/scripts.py).                                           *)
(*                                                                         *)
(* Spec follows the reconciliation (lines 102-193 of script_main) row by   *)
(* row in a run started in check mode.  RunSpec follows a whole run, from  *)
(* the check-mode prompt to end_cisco_session.                             *)
(*                                                                         *)
(* Python strings are TLA+ strings; a character is a string of length 1.   *)
(***************************************************************************)
EXTENDS Integers, Sequences, FiniteSets, TLC

(***************************************************************************)
(* Characters and strings                                                  *)
(***************************************************************************)

\* The characters the model uses, in code-point order.
AsciiChars == " ,-./0123456789:ABCDEFGHIJKLMNOPQRSTUVWXYZabcdefghijklmnopqrstuvwxyz"

UpperChars == "ABCDEFGHIJKLMNOPQRSTUVWXYZ"

LowerChars == "abcdefghijklmnopqrstuvwxyz"

DigitChars == "0123456789"

CharAt(s, i) == SubSeq(s, i, i)

\* The characters of string t, as a set.
CharsOf(t) == { CharAt(t, i) : i \in 1..Len(t) }

\* Position of character c in string t, 0 when absent.
IndexIn(t, c) ==
    IF \E i \in 1..Len(t) : CharAt(t, i) = c
    THEN CHOOSE i \in 1..Len(t) : CharAt(t, i) = c
    ELSE 0

\* ord(c) for each character in use, up to an order-preserving renumbering.
OrdOf == [c \in CharsOf(AsciiChars) |-> IndexIn(AsciiChars, c)]

Ord(c) == OrdOf[c]

\* The digit characters.
DigitSet == CharsOf(DigitChars)

\* str.isdigit() of one character.
IsDigit(c) == c \in DigitSet

\* int(c) for each digit character.
DigitOf == [c \in DigitSet |-> IndexIn(DigitChars, c) - 1]

DigitVal(c) == DigitOf[c]

\* The upper-case letters.
UpperSet == CharsOf(UpperChars)

\* c.lower() for each upper-case letter.
LowerOf == [c \in UpperSet |-> CharAt(LowerChars, IndexIn(UpperChars, c))]

\* str.lower() of one character.
LowerChar(c) == IF c \in UpperSet THEN LowerOf[c] ELSE c

RECURSIVE Lower(_)
\* str.lower()
Lower(s) == IF s = "" THEN "" ELSE LowerChar(Head(s)) \o Lower(Tail(s))

\* s.startswith(p)
StartsWith(s, p) == Len(p) <= Len(s) /\ SubSeq(s, 1, Len(p)) = p

\* s.endswith(p)
EndsWith(s, p) == Len(p) <= Len(s) /\ SubSeq(s, Len(s) - Len(p) + 1, Len(s)) = p

\* p in s
Contains(s, p) ==
    \E i \in 1..(Len(s) - Len(p) + 1) : SubSeq(s, i, i + Len(p) - 1) = p

\* s[n:]
Drop(s, n) == SubSeq(s, n + 1, Len(s))

RECURSIVE StrLess(_, _)
\* a < b on Python strings: lexicographic by code point.
StrLess(a, b) ==
    IF b = "" THEN FALSE
    ELSE IF a = "" THEN TRUE
    ELSE IF Head(a) = Head(b) THEN StrLess(Tail(a), Tail(b))
    ELSE Ord(Head(a)) < Ord(Head(b))

RECURSIVE DigitsToInt(_, _)
\* int(text) of a run of digits, most significant first (acc is the value so far).
DigitsToInt(text, acc) ==
    IF text = "" THEN acc
    ELSE DigitsToInt(Tail(text), 10 * acc + DigitVal(Head(text)))

(***************************************************************************)
(* securecrt_tools.utilities (not part of the sources at hand; modelled    *)
(* from the specification's description of each helper)                    *)
(***************************************************************************)

RECURSIVE RunEnd(_, _, _)
\* Index of the first position >= i of s whose character's digit-ness differs
\* from d, Len(s) + 1 when the run reaches the end of the string.
RunEnd(s, i, d) ==
    IF i > Len(s) \/ IsDigit(CharAt(s, i)) # d THEN i
    ELSE RunEnd(s, i + 1, d)

RECURSIVE KeyFrom(_, _, _)
\* The chunks of s from position i on: text chunks stay strings, digit runs
\* become integers; d says whether the chunk starting at i is a digit run.
KeyFrom(s, i, d) ==
    LET j     == RunEnd(s, i, d)
        chunk == SubSeq(s, i, j - 1)
    IN  IF d THEN <<DigitsToInt(chunk, 0)>> \o KeyFrom(s, j, FALSE)
        ELSE IF j > Len(s) THEN <<chunk>>
        ELSE <<chunk>> \o KeyFrom(s, j, TRUE)

\* utilities.human_sort_key: numeric substrings are compared numerically.
\* The key alternates text, number, text, ...: odd positions hold text.
human_sort_key(s) == KeyFrom(s, 1, FALSE)

RECURSIVE KeyLessFrom(_, _, _)
\* Python's list comparison a < b of two sort keys, from position i on.
KeyLessFrom(a, b, i) ==
    IF i > Len(a) THEN i <= Len(b)
    ELSE IF i > Len(b) THEN FALSE
    ELSE IF a[i] = b[i] THEN KeyLessFrom(a, b, i + 1)
    ELSE IF i % 2 = 0 THEN a[i] < b[i]
    ELSE StrLess(a[i], b[i])

\* key(a) < key(b) under human_sort_key.
NaturalLess(a, b) == KeyLessFrom(human_sort_key(a), human_sort_key(b), 1)

\* The short/long alias table of interface-name prefixes.
IntfAliases ==
    << <<"Eth", "Ethernet">>,
       <<"Gi", "GigabitEthernet">>,
       <<"Te", "TenGigabitEthernet">>,
       <<"Po", "port-channel">> >>

\* The alias table with every prefix in lower case, for case-blind matching.
IntfAliasesLower ==
    [k \in 1..Len(IntfAliases) |-> <<Lower(IntfAliases[k][1]), Lower(IntfAliases[k][2])>>]

\* The part of an interface name before its first digit.
IntfPrefix(name) == SubSeq(name, 1, RunEnd(name, 1, FALSE) - 1)

\* The part of an interface name from its first digit on.
IntfNumber(name) == Drop(name, Len(IntfPrefix(name)))

\* utilities.long_int_name: the canonical long form of an interface name.
long_int_name(name) ==
    LET p    == Lower(IntfPrefix(name))
        hits == { k \in 1..Len(IntfAliases) :
                    p = IntfAliasesLower[k][1] \/ p = IntfAliasesLower[k][2] }
    IN  IF hits = {} THEN name
        ELSE IntfAliases[CHOOSE k \in hits : \A m \in hits : k <= m][2]
                \o IntfNumber(name)

\* utilities.short_int_name: abbreviates a long interface name by its prefix.
short_int_name(name) ==
    LET p    == Lower(IntfPrefix(name))
        hits == { k \in 1..Len(IntfAliases) : p = IntfAliasesLower[k][2] }
    IN  IF hits = {} THEN name
        ELSE IntfAliases[CHOOSE k \in hits : \A m \in hits : k <= m][1]
                \o IntfNumber(name)

\* utilities.extract_system_name: strips the longest matching domain suffix of
\* strip_list (case-insensitive) from device_id; a device_id without a
\* separator, or matching no suffix, is used verbatim.
extract_system_name(device_id, strip_list) ==
    LET hits == { k \in 1..Len(strip_list) :
                    EndsWith(Lower(device_id), "." \o Lower(strip_list[k])) }
    IN  IF ~Contains(device_id, ".") \/ hits = {} THEN device_id
        ELSE LET k == CHOOSE h \in hits :
                        \A m \in hits : Len(strip_list[m]) <= Len(strip_list[h])
             IN  SubSeq(device_id, 1, Len(device_id) - Len(strip_list[k]) - 1)

(***************************************************************************)
(* Bounds and input domains                                                *)
(***************************************************************************)

\* Most rows read from the device list CSV file.
MaxCsvRows == 3

\* Most rows of the parsed "show run" description table.
MaxDescRows == 1

\* Most rows of the parsed CDP neighbor table (header row not counted).
MaxCdpRows == 3

\* Most rows of the parsed port-channel summary table.
MaxPcRows == 2

\* Rows the description template can yield: (interface, description).
DescRowSet ==
    { <<"Ethernet1/1", "SW-A Gi1/0/1">>,
      <<"Ethernet1/2", "">>,
      <<"Ethernet1/10", "uplink">>,
      <<"port-channel1", "vPC: SW1, SW-A">>,
      <<"port-channel1", "SW01 Te1/1/1">> }

\* Local interfaces CDP reports neighbors on.
CdpLocalIntfs == {"Ethernet1/1", "Ethernet1/2", "Ethernet1/10"}

\* Neighbors CDP reports: (device id, system name, remote port).
CdpNeighbors ==
    { <<"SW-A.example.com", "", "GigabitEthernet1/0/1">>,
      <<"SW1", "localhost", "Eth1/49">>,
      <<"SW01", "SW01", "TenGigabitEthernet1/1/1">> }

\* Rows of the CDP template: (local port, device id, system name, remote port).
CdpRowSet ==
    { <<l, n[1], n[2], n[3]>> : l \in CdpLocalIntfs, n \in CdpNeighbors }

\* Rows that lack columns of the CDP template.
CdpShortRows ==
    { <<"Ethernet1/1", "SW1">>,
      <<"Ethernet1/2", "SW-A.example.com", "">> }

\* Rows that lack the member column of the port-channel summary template.
PcShortRows == { <<"Po1", "SU", "Eth", "LACP">> }

\* Rows of the port-channel summary template; column 1 is the bundle name and
\* column 5 the list of member interfaces.
PcRowSet ==
    { <<"Po1", "SU", "Eth", "LACP", <<"Eth1/1", "Eth1/2">> >>,
      <<"Po1", "SU", "Eth", "LACP", <<"Eth1/1", "Eth1/2", "Eth1/10">> >>,
      <<"Po2", "SU", "Eth", "LACP", <<"Eth1/10", "Eth1/3">> >>,
      <<"Po1", "SD", "Eth", "NONE", <<"Eth1/3">> >> }

\* The strip_domains setting.
strip_list == <<"example.com">>

(***************************************************************************)
(* State                                                                   *)
(***************************************************************************)

VARIABLES
    pc,               \* position in script_main
    rows,             \* rows consumed so far by the loop in progress
    entry,            \* loop variable of the table loop in progress
    ex_desc_lookup,   \* interface -> existing description
    description_data, \* interface -> (system name, remote interface), or the
                      \* list of neighbor names of a port-channel
    found_intfs,      \* extract_cdp_data: local interfaces seen so far
    intf_list,        \* sorted interface names
    idx,              \* position of the synthesis loop in intf_list
    new_desc,         \* script_main's local new_desc
    new_desc_bound,   \* whether new_desc has been assigned yet
    config_commands,  \* ChangeSet
    rollback,         \* RollbackSet
    fsm_entry,        \* the row at hand as TextFSM yielded it (history)
    check_mode,       \* script_main's check_mode once the prompt is answered
    take_backups,     \* script_main's take_backups
    create_rollback,  \* script_main's create_rollback, FALSE until it is read
    events,           \* the session calls and file operations made so far
    exc,              \* the exception that ended script_main, "" when none
    protocol,         \* CRTScript.connect: its protocol argument ("" for None)
    prompt_endings,   \* CRTScript.connect: its prompt_endings argument
    version,          \* connect_ssh: its version argument ("None", "1" or "2")
    attempts,         \* the protocols a connection was attempted with, in order
    conn_exc,         \* the exception that left connect, "" when none
    send_cmd,         \* s_save_output: the command the user entered
    launcher,         \* s_save_output: "crt" under SecureCRT, "direct" when run
                      \* directly, "" before the launch
    connected,        \* CRTScript: main_session.is_connected()
    main_session,     \* CRTScript: which session object main_session refers to
    synchronous,      \* main_session.screen.Synchronous
    ignore_escape,    \* main_session.screen.IgnoreEscape
    tab_calls,        \* the connect strings ConnectInTab was called with
    routine_exc,      \* the exception the last connect routine raised, "" when none
    header,           \* import_device_list: the column names of the CSV file
    csv_entry,        \* the CSV row at hand as DictReader yielded it (history)
    lines_read,       \* import_device_list: its local line, the rows read so far
    device_list,      \* import_device_list: the devices accepted so far
    skipped_lines,    \* import_device_list: rows skipped so far
    default_username, \* "" while None
    default_enable,   \* "" while None
    prompt_enable,    \* whether the enable question may still be asked
    credentials,      \* username -> password given at a prompt
    dev_idx,          \* m_save_output: devices of device_list gone through
    attempted,        \* the hostnames connect was called for, in order
    failed,           \* the hostnames whose connection or work raised
    failed_log        \* the lines of the failure log

\* What script_main computes from the tables.
core_vars ==
    <<rows, entry, ex_desc_lookup, description_data, found_intfs, intf_list,
      idx, new_desc, new_desc_bound, config_commands, rollback, fsm_entry>>

\* What a run adds to that.
run_vars == <<check_mode, take_backups, create_rollback, events, exc>>

\* What a call of CRTScript.connect works on.
conn_vars == <<protocol, prompt_endings, version, attempts, conn_exc>>

\* What a run of s_save_output adds to events and exc.
save_vars == <<send_cmd, launcher>>

\* The tab of the script and its session object.
tab_vars ==
    <<connected, main_session, synchronous, ignore_escape, tab_calls, routine_exc>>

\* The locals of Script.import_device_list.
import_vars ==
    <<header, csv_entry, lines_read, device_list, skipped_lines, default_username,
      default_enable, prompt_enable, credentials>>

\* What the device loop of m_save_output adds to device_list and send_cmd.
multi_vars == <<dev_idx, attempted, failed, failed_log>>

\* What the other scripts work on.
script_vars == <<save_vars, import_vars, multi_vars>>

\* What is neither local to script_main of s_update_interface_desc nor an
\* argument or outcome of CRTScript.connect.
other_vars == <<script_vars, tab_vars>>

vars == <<pc, core_vars, run_vars, conn_vars, other_vars>>

\* The value of `entry` outside a table loop.
NoEntry == <<>>

\* The empty dict.
EmptyDict == <<>>

\* d with d[k] = v set (dict assignment).
DictSet(d, k, v) == [x \in DOMAIN d \cup {k} |-> IF x = k THEN v ELSE d[x]]

\* d after d.pop(k, None).
DictPop(d, k) == [x \in DOMAIN d \ {k} |-> d[x]]

\* The elements of a list.
Range(s) == { s[i] : i \in 1..Len(s) }

\* Every list holding each element of S exactly once.
Perms(S) ==
    { s \in [1..Cardinality(S) -> S] : \A i, j \in 1..Cardinality(S) : s[i] = s[j] => i = j }

\* The locals of script_main before the tables are read.
CoreInit ==
    /\ rows = 0
    /\ entry = NoEntry
    /\ ex_desc_lookup = EmptyDict
    /\ description_data = EmptyDict
    /\ found_intfs = {}
    /\ intf_list = <<>>
    /\ idx = 0
    /\ new_desc = ""
    /\ new_desc_bound = FALSE
    /\ config_commands = <<>>
    /\ rollback = <<>>
    /\ fsm_entry = NoEntry

\* No call of CRTScript.connect is under way.
ConnInit ==
    /\ protocol = ""
    /\ prompt_endings = <<>>
    /\ version = "None"
    /\ attempts = <<>>
    /\ conn_exc = ""

\* s_save_output has not been launched.
SaveInit ==
    /\ send_cmd = ""
    /\ launcher = ""

\* A tab that is not connected: CRTScript.__init__ (lines 513-519) has made
\* the session object for it.
TabInit ==
    /\ connected = FALSE
    /\ main_session = 0
    /\ synchronous = FALSE
    /\ ignore_escape = FALSE
    /\ tab_calls = <<>>
    /\ routine_exc = ""

\* import_device_list has not been called.
ImportInit ==
    /\ header = {}
    /\ csv_entry = NoEntry
    /\ lines_read = 0
    /\ device_list = <<>>
    /\ skipped_lines = 0
    /\ default_username = ""
    /\ default_enable = ""
    /\ prompt_enable = TRUE
    /\ credentials = EmptyDict

\* m_save_output has not reached its loop.
MultiInit ==
    /\ dev_idx = 0
    /\ attempted = <<>>
    /\ failed = <<>>
    /\ failed_log = <<>>

OtherInit ==
    /\ SaveInit
    /\ TabInit
    /\ ImportInit
    /\ MultiInit

\* script_main at line 102, called with prompt_check_mode = False and the
\* default check_mode, take_backups being off.
Init ==
    /\ pc = "desc"
    /\ CoreInit
    /\ ConnInit
    /\ OtherInit
    /\ check_mode = TRUE
    /\ take_backups = FALSE
    /\ create_rollback = FALSE
    /\ events = << <<"start_cisco_session">>,
                   <<"get_command_output", "show run">> >>
    /\ exc = ""

\* script_main is about to be called.
RunInit ==
    /\ pc = "start"
    /\ CoreInit
    /\ ConnInit
    /\ OtherInit
    /\ check_mode = TRUE
    /\ take_backups = FALSE
    /\ create_rollback = FALSE
    /\ events = <<>>
    /\ exc = ""

(***************************************************************************)
(* script_main: the check-mode prompt and the BEFORE backup                *)
(***************************************************************************)

\* The buttons of the Yes/No/Cancel message box.
MessageBoxResults == {"IDYES", "IDNO", "IDCANCEL"}

\* A prompt whose Cancel leaves check_mode as it was passed.
CheckModeAfterPromptNoCancel(prompt_check_mode, param, result) ==
    IF ~prompt_check_mode THEN [cancel |-> FALSE, check_mode |-> param]
    ELSE IF result = "IDYES" THEN [cancel |-> FALSE, check_mode |-> TRUE]
    ELSE IF result = "IDNO" THEN [cancel |-> FALSE, check_mode |-> FALSE]
    ELSE [cancel |-> FALSE, check_mode |-> param]

\* Lines 71-86: check_mode is the parameter unless the user is prompted;
\* any answer but Yes and No ends the run.
CheckModeAfterPrompt(prompt_check_mode, param, result) ==
    IF ~prompt_check_mode THEN [cancel |-> FALSE, check_mode |-> param]
    ELSE IF result = "IDYES" THEN [cancel |-> FALSE, check_mode |-> TRUE]
    ELSE IF result = "IDNO" THEN [cancel |-> FALSE, check_mode |-> FALSE]
    ELSE [cancel |-> TRUE, check_mode |-> param]

\* A test that looks at the setting alone.
TakesBeforeBackupAnyMode(cm, tb) == tb

\* "if not check_mode and take_backups"
TakesBeforeBackup(cm, tb) == ~cm /\ tb

\* A launcher that lets the exception through as it is.
RaisedEventsNoEnd(ev) == ev

\* The launcher's handler: an exception that leaves script_main ends the
\* session before it is raised again.
RaisedEvents(ev) == Append(ev, <<"end_cisco_session">>)

\* script_main from its first line to the reading of "show run".
Start ==
    /\ pc = "start"
    /\ UNCHANGED <<conn_vars, other_vars>>
    /\ \E prompt_check_mode \in BOOLEAN, param \in BOOLEAN,
          result \in MessageBoxResults, tb \in BOOLEAN :
        LET r == CheckModeAfterPrompt(prompt_check_mode, param, result)
        IN  /\ check_mode' = r.check_mode
            /\ IF r.cancel
               THEN /\ pc' = "ended"
                    /\ take_backups' = take_backups
                    /\ events' = << <<"start_cisco_session">>, <<"end_cisco_session">> >>
               ELSE /\ pc' = "desc"
                    /\ take_backups' = tb
                    /\ events' =
                        IF TakesBeforeBackup(r.check_mode, tb)
                        THEN << <<"start_cisco_session">>,
                                <<"write_output_to_file", "1-show-run-BEFORE">> >>
                        ELSE << <<"start_cisco_session">>,
                                <<"get_command_output", "show run">> >>
    /\ UNCHANGED <<core_vars, create_rollback, exc>>

\* A handler that swallows the exception: script_main goes on with an empty
\* plan.
RaiseSwallowed(name) ==
    /\ pc' = "done"
    /\ exc' = name
    /\ events' = events
    /\ rows' = 0
    /\ entry' = NoEntry
    /\ ex_desc_lookup' = EmptyDict
    /\ description_data' = EmptyDict
    /\ found_intfs' = {}
    /\ intf_list' = <<>>
    /\ idx' = 1
    /\ new_desc' = ""
    /\ new_desc_bound' = FALSE
    /\ config_commands' = <<>>
    /\ rollback' = <<>>
    /\ UNCHANGED <<check_mode, take_backups, create_rollback>>

\* An exception leaves script_main: its locals are gone, and the launcher ends
\* the session.
Raise(name) ==
    /\ pc' = "raised"
    /\ exc' = name
    /\ events' = RaisedEvents(events)
    /\ rows' = 0
    /\ entry' = NoEntry
    /\ ex_desc_lookup' = EmptyDict
    /\ description_data' = EmptyDict
    /\ found_intfs' = {}
    /\ intf_list' = <<>>
    /\ idx' = 0
    /\ new_desc' = ""
    /\ new_desc_bound' = FALSE
    /\ config_commands' = <<>>
    /\ rollback' = <<>>
    /\ UNCHANGED <<check_mode, take_backups, create_rollback>>

(***************************************************************************)
(* script_main: the existing-description table                             *)
(***************************************************************************)

\* One iteration of the loop that fills ex_desc_lookup from the parsed
\* "show run" rows.
ReadDescRow ==
    /\ pc = "desc"
    /\ UNCHANGED <<conn_vars, other_vars>>
    /\ rows < MaxDescRows
    /\ \E e \in DescRowSet :
        /\ entry' = e
        /\ fsm_entry' = e
        /\ ex_desc_lookup' = DictSet(ex_desc_lookup, long_int_name(e[1]), e[2])
    /\ rows' = rows + 1
    /\ UNCHANGED <<pc, description_data, found_intfs, intf_list, idx, new_desc,
                   new_desc_bound, config_commands, rollback, run_vars>>

\* The description table is exhausted; script_main asks for the CDP data.
DescDone ==
    /\ pc = "desc"
    /\ UNCHANGED <<conn_vars, other_vars>>
    /\ pc' = "cdp"
    /\ rows' = 0
    /\ entry' = NoEntry
    /\ fsm_entry' = NoEntry
    /\ events' = Append(events, <<"get_command_output", "show cdp neighbors detail">>)
    /\ UNCHANGED <<ex_desc_lookup, description_data, found_intfs, intf_list, idx,
                   new_desc, new_desc_bound, config_commands, rollback,
                   check_mode, take_backups, create_rollback, exc>>

(***************************************************************************)
(* script_main's system-name pass and extract_cdp_data                     *)
(***************************************************************************)

\* A resolution that looks for the empty system name alone.
ResolveEntryEmptyOnly(e) ==
    IF e[3] = ""
    THEN <<e[1], e[2], extract_system_name(e[2], strip_list), e[4]>>
    ELSE e

\* The row as script_main leaves it: an empty or "localhost" system name is
\* replaced by the name derived from the device id.
ResolveEntry(e) ==
    IF e[3] = "" \/ e[3] = "localhost"
    THEN <<e[1], e[2], extract_system_name(e[2], strip_list), e[4]>>
    ELSE e

\* extract_cdp_data: the system name it uses for a row.
CdpSystemName(e) ==
    IF e[3] = "" THEN extract_system_name(e[2], <<>>) ELSE e[3]

\* A loop body that stores every row under its local interface.
CdpDataAfterOverwrite(cdp_data, found, e) ==
    DictSet(cdp_data, long_int_name(e[1]), <<CdpSystemName(e), long_int_name(e[4])>>)

\* extract_cdp_data: cdp_data after the loop body has run on row e.
CdpDataAfter(cdp_data, found, e) ==
    LET local_intf  == long_int_name(e[1])
        system_name == CdpSystemName(e)
        remote_intf == long_int_name(e[4])
    IN  IF local_intf \in found
        THEN DictPop(cdp_data, system_name)
        ELSE DictSet(cdp_data, local_intf, <<system_name, remote_intf>>)

\* extract_cdp_data: found_intfs after the loop body has run on row e.
FoundAfter(found, e) == found \cup {long_int_name(e[1])}

\* entry[n - 1] exists: indexing a row that lacks the column raises IndexError.
HasColumns(e, n) == Len(e) >= n

\* One row of the CDP table: script_main resolves its system name, then
\* extract_cdp_data's loop body runs on it.  (The source makes the two passes
\* one after the other over the whole table; each pass touches only the row
\* at hand, so the passes are taken row by row here.)  A row without the
\* system-name column fails entry[2] in script_main, one without the
\* remote-port column entry[3] in extract_cdp_data.
CdpRow ==
    /\ pc = "cdp"
    /\ UNCHANGED <<conn_vars, other_vars>>
    /\ rows < MaxCdpRows
    /\ \E e \in CdpRowSet \cup CdpShortRows :
        IF ~HasColumns(e, 4)
        THEN fsm_entry' = e /\ Raise("IndexError")
        ELSE /\ fsm_entry' = e
             /\ entry' = ResolveEntry(e)
             /\ description_data' = CdpDataAfter(description_data, found_intfs, ResolveEntry(e))
             /\ found_intfs' = FoundAfter(found_intfs, ResolveEntry(e))
             /\ rows' = rows + 1
             /\ UNCHANGED <<pc, ex_desc_lookup, intf_list, idx, new_desc, new_desc_bound,
                            config_commands, rollback, run_vars>>

\* extract_cdp_data returns; its locals are gone.  script_main asks for the
\* port-channel summary (of NX-OS, whose interface names the tables use).
CdpDone ==
    /\ pc = "cdp"
    /\ UNCHANGED <<conn_vars, other_vars>>
    /\ pc' = "portchannel"
    /\ rows' = 0
    /\ entry' = NoEntry
    /\ fsm_entry' = NoEntry
    /\ found_intfs' = {}
    /\ events' = Append(events, <<"get_command_output", "show port-channel summary">>)
    /\ UNCHANGED <<ex_desc_lookup, description_data, intf_list, idx, new_desc,
                   new_desc_bound, config_commands, rollback,
                   check_mode, take_backups, create_rollback, exc>>

(***************************************************************************)
(* add_port_channels                                                       *)
(***************************************************************************)

\* neighbor_set for one port-channel row: the names of its members found in
\* desc_data.
NeighborSet(desc_data, e) ==
    { desc_data[long_int_name(e[5][k])][1] :
        k \in { m \in 1..Len(e[5]) : long_int_name(e[5][m]) \in DOMAIN desc_data } }

\* A merge that stores the list even when it is empty.
PcDataAfterAlways(desc_data, e, order) ==
    DictSet(desc_data, long_int_name(e[1]), order)

\* desc_data after the loop body has run on row e; order is list(neighbor_set).
PcDataAfter(desc_data, e, order) ==
    IF Cardinality(NeighborSet(desc_data, e)) > 0
    THEN DictSet(desc_data, long_int_name(e[1]), order)
    ELSE desc_data

\* One row of the port-channel table.  list(set) yields the names in an order
\* the language does not fix.  A row without the member column fails
\* entry[4].
PcRow ==
    /\ pc = "portchannel"
    /\ UNCHANGED <<conn_vars, other_vars>>
    /\ rows < MaxPcRows
    /\ \E e \in PcRowSet \cup PcShortRows :
        IF ~HasColumns(e, 5)
        THEN fsm_entry' = e /\ Raise("IndexError")
        ELSE /\ entry' = e
             /\ fsm_entry' = e
             /\ \E order \in Perms(NeighborSet(description_data, e)) :
                    description_data' = PcDataAfter(description_data, e, order)
             /\ rows' = rows + 1
             /\ UNCHANGED <<pc, ex_desc_lookup, found_intfs, intf_list, idx, new_desc,
                            new_desc_bound, config_commands, rollback, run_vars>>

(***************************************************************************)
(* script_main: the synthesis loop                                         *)
(***************************************************************************)

RECURSIVE SortedBy(_, _)
\* Every order of the names of keys in which no name comes after a name with
\* a greater key; key maps each name to its sort key.
SortedBy(keys, key) ==
    IF keys = {} THEN {<<>>}
    ELSE UNION { { <<m>> \o t : t \in SortedBy(keys \ {m}, key) } :
                    m \in { n \in keys : \A k \in keys : ~KeyLessFrom(key[k], key[n], 1) } }

\* A sort that compares the names as plain strings.
SortedListsPlain(keys) ==
    { l \in Perms(keys) : \A i, j \in 1..Len(l) : i < j => StrLess(l[i], l[j]) }

\* sorted(keys, key=human_sort_key).  Names with equal keys keep the order
\* the dict yields them in, which is any order here.
SortedLists(keys) == SortedBy(keys, [k \in keys |-> human_sort_key(k)])

\* add_port_channels is done; script_main empties the command lists and sorts
\* the interface names.
PcDone ==
    /\ pc = "portchannel"
    /\ UNCHANGED <<conn_vars, other_vars>>
    /\ pc' = "synth"
    /\ rows' = 0
    /\ entry' = NoEntry
    /\ config_commands' = <<>>
    /\ rollback' = <<>>
    /\ fsm_entry' = NoEntry
    /\ \E l \in SortedLists(DOMAIN description_data) : intf_list' = l
    /\ idx' = 1
    /\ UNCHANGED <<ex_desc_lookup, description_data, found_intfs, new_desc,
                   new_desc_bound, run_vars>>

\* A lookup that finds no description.
ExistingDescNone(lookup, interface) == ""

\* existing_desc: the lookup, "" on KeyError.
ExistingDesc(lookup, interface) ==
    IF interface \in DOMAIN lookup THEN lookup[interface] ELSE ""

\* "port-channel" in interface.lower()
IsPortChannel(interface) == Contains(Lower(interface), "port-channel")

\* sorted(neigh_list, key=human_sort_key) of a two-element list (stable).
SortedPair(neigh_list) ==
    IF NaturalLess(neigh_list[2], neigh_list[1])
    THEN <<neigh_list[2], neigh_list[1]>>
    ELSE neigh_list

\* new_desc as the port-channel branch leaves it, given its value (prev) and
\* whether it was assigned (bound) when the iteration began.
PortChannelDesc(neigh_list, prev, bound) ==
    IF Len(neigh_list) = 2
    THEN [desc  |-> "vPC: " \o SortedPair(neigh_list)[1] \o ", " \o SortedPair(neigh_list)[2],
          bound |-> TRUE]
    ELSE IF Len(neigh_list) = 1
    THEN [desc |-> neigh_list[1], bound |-> TRUE]
    ELSE [desc |-> prev, bound |-> bound]

\* A description that keeps the long remote interface name.
PhysicalDescLong(pair) == pair[1] \o " " \o pair[2]

\* new_desc of the branch for the other interfaces.
PhysicalDesc(pair) == pair[1] \o " " \o short_int_name(pair[2])

\* new_desc after the branch taken for this interface.
ComputedDesc(interface, data, prev, bound) ==
    IF IsPortChannel(interface)
    THEN PortChannelDesc(data[interface], prev, bound)
    ELSE [desc |-> PhysicalDesc(data[interface]), bound |-> TRUE]

\* A filter that lets every interface through.
NeedsChangeAlways(desc, existing_desc) == TRUE

\* "Only update description if we will be making a change".
NeedsChange(desc, existing_desc) == desc # existing_desc

\* The two lines appended to config_commands.
ConfigLines(interface, desc) ==
    <<"interface " \o interface, " description " \o desc>>

\* Rollback lines that lack the line entering the interface.
RollbackLinesNoInterface(interface, existing_desc) ==
    <<IF existing_desc = "" THEN " no description"
      ELSE " description " \o existing_desc>>

\* Rollback lines that always remove the description.
RollbackLinesRemoveOnly(interface, existing_desc) ==
    <<"interface " \o interface, " no description">>

\* The two lines appended to rollback.
RollbackLines(interface, existing_desc) ==
    <<"interface " \o interface,
      IF existing_desc = "" THEN " no description"
      ELSE " description " \o existing_desc>>

\* The locals of the loop as script_main has them before its first iteration.
LoopStart ==
    [new_desc |-> "", bound |-> FALSE, config_commands |-> <<>>,
     rollback |-> <<>>, raised |-> FALSE]

\* The body of the loop over intf_list, run on one interface: st holds the
\* locals before the iteration, the result the locals after it.  Reading
\* new_desc before any branch has assigned it raises UnboundLocalError.
LoopBody(st, interface, data, lookup) ==
    LET existing_desc == ExistingDesc(lookup, interface)
        computed      == ComputedDesc(interface, data, st.new_desc, st.bound)
    IN  IF ~computed.bound
        THEN [st EXCEPT !.raised = TRUE]
        ELSE [new_desc |-> computed.desc,
              bound    |-> TRUE,
              config_commands |->
                  IF NeedsChange(computed.desc, existing_desc)
                  THEN st.config_commands \o ConfigLines(interface, computed.desc)
                  ELSE st.config_commands,
              rollback |->
                  IF NeedsChange(computed.desc, existing_desc)
                  THEN st.rollback \o RollbackLines(interface, existing_desc)
                  ELSE st.rollback,
              raised   |-> FALSE]

RECURSIVE RunLoop(_, _, _, _, _)
\* The loop over list from position i on, begun with the locals st.
RunLoop(st, list, i, data, lookup) ==
    IF i > Len(list) \/ st.raised THEN st
    ELSE RunLoop(LoopBody(st, list[i], data, lookup), list, i + 1, data, lookup)

\* One iteration of the loop over intf_list; an exception ends script_main.
SynthStep ==
    /\ pc = "synth"
    /\ UNCHANGED <<conn_vars, other_vars>>
    /\ idx <= Len(intf_list)
    /\ LET st == LoopBody([new_desc |-> new_desc, bound |-> new_desc_bound,
                           config_commands |-> config_commands,
                           rollback |-> rollback, raised |-> FALSE],
                          intf_list[idx], description_data, ex_desc_lookup)
       IN  /\ pc' = IF st.raised THEN "error" ELSE pc
           /\ idx' = IF st.raised THEN idx ELSE idx + 1
           /\ new_desc' = st.new_desc
           /\ new_desc_bound' = st.bound
           /\ config_commands' = st.config_commands
           /\ rollback' = st.rollback
           /\ exc' = IF st.raised THEN "UnboundLocalError" ELSE exc
           /\ events' = IF st.raised THEN RaisedEvents(events) ELSE events
    /\ UNCHANGED <<rows, entry, ex_desc_lookup, description_data, found_intfs,
                   intf_list, fsm_entry, check_mode, take_backups, create_rollback>>

\* The loop is over: the plan is complete.
SynthDone ==
    /\ pc = "synth"
    /\ UNCHANGED <<conn_vars, other_vars>>
    /\ idx > Len(intf_list)
    /\ pc' = "done"
    /\ UNCHANGED <<core_vars, run_vars>>

Next ==
    \/ ReadDescRow
    \/ DescDone
    \/ CdpRow
    \/ CdpDone
    \/ PcRow
    \/ PcDone
    \/ SynthStep
    \/ SynthDone

Spec == Init /\ [][Next]_vars

(***************************************************************************)
(* System-name resolution, record by record                                *)
(***************************************************************************)

\* Device ids and system names CDP can report, beyond those of CdpNeighbors.
NameDeviceIds ==
    {"", "SW1", "SW-A.example.com", "esx01.EXAMPLE.COM", "localhost",
     "localhost.example.com"}

NameSystemNames == {"", "localhost", "Localhost", "SW01"}

\* Rows of the CDP template over those names.
NameRowSet ==
    { <<l, d, n, r>> : l \in {"Eth1/1", "Ethernet1/2", "Gi0/1"},
                       d \in NameDeviceIds,
                       n \in NameSystemNames,
                       r \in {"GigabitEthernet1/0/1", "Eth1/49"} }

\* script_main at line 124 with a CDP table of one record.
NameInit ==
    /\ pc = "name"
    /\ CoreInit
    /\ ConnInit
    /\ OtherInit
    /\ check_mode = TRUE
    /\ take_backups = FALSE
    /\ create_rollback = FALSE
    /\ events = << <<"start_cisco_session">>,
                   <<"get_command_output", "show run">>,
                   <<"get_command_output", "show cdp neighbors detail">> >>
    /\ exc = ""

\* The record goes through script_main's system-name pass and through the
\* loop body of extract_cdp_data.
ResolveRecord ==
    /\ pc = "name"
    /\ UNCHANGED <<conn_vars, other_vars>>
    /\ rows = 0
    /\ \E e \in NameRowSet :
        /\ fsm_entry' = e
        /\ entry' = ResolveEntry(e)
        /\ description_data' = CdpDataAfter(description_data, found_intfs, ResolveEntry(e))
        /\ found_intfs' = FoundAfter(found_intfs, ResolveEntry(e))
    /\ rows' = 1
    /\ UNCHANGED <<pc, ex_desc_lookup, intf_list, idx, new_desc, new_desc_bound,
                   config_commands, rollback, run_vars>>

NameNext == ResolveRecord

NameSpec == NameInit /\ [][NameNext]_vars

(***************************************************************************)
(* script_main: writing or pushing the plan                                *)
(***************************************************************************)

\* A test that lets an empty plan through.
HasChangesAlways(commands) == TRUE

\* "if config_commands:"
HasChanges(commands) == commands # <<>>

\* What "with open(name, 'wb')" and the loop of writes under it do: the file
\* is created empty, and the first write raises TypeError, the file being
\* binary and the line a str.  No line reaches the file.
WriteFile(name, lines) ==
    [events |-> << <<"open", name>> >>, raised |-> lines # <<>>]

\* A push that leaves out the last entry of the plan.
PushedCommandsButLast(commands) == SubSeq(commands, 1, Len(commands) - 2)

\* The list handed to send_config_commands.
PushedCommands(commands) == commands

\* Lines 204-222: the session calls of the apply branch, in order.
PushEvents(commands, tb) ==
    IF tb
    THEN << <<"send_config_commands", PushedCommands(commands), "2-CONFIG-RESULTS">>,
            <<"write_output_to_file", "3-show-run-AFTER">>,
            <<"save">> >>
    ELSE << <<"send_config_commands", PushedCommands(commands), "CONFIG-RESULTS">>,
            <<"save">> >>

\* rollback_filename as lines 202, 213 and 219 set it.
RollbackFilename(cm, tb) ==
    IF cm THEN "intf-rollback" ELSE IF tb THEN "4-ROLLBACK" ELSE "ROLLBACK"

\* "if create_rollback:"
WantsRollback(setting) == setting

\* Check mode with a plan: lines 198-202, the change file.
WriteChangeFile ==
    /\ pc = "done"
    /\ UNCHANGED <<conn_vars, other_vars>>
    /\ HasChanges(config_commands)
    /\ check_mode
    /\ LET w == WriteFile("intf-desc", config_commands)
       IN  IF w.raised
           THEN /\ pc' = "raised"
                /\ exc' = "TypeError"
                /\ events' = RaisedEvents(events \o w.events)
           ELSE /\ pc' = "rollback"
                /\ exc' = exc
                /\ events' = events \o w.events
    /\ UNCHANGED <<core_vars, check_mode, take_backups, create_rollback>>

\* Apply mode with a plan: lines 204-222, the push, the AFTER backup and the
\* save.
PushConfig ==
    /\ pc = "done"
    /\ UNCHANGED <<conn_vars, other_vars>>
    /\ HasChanges(config_commands)
    /\ ~check_mode
    /\ pc' = "rollback"
    /\ events' = events \o PushEvents(config_commands, take_backups)
    /\ UNCHANGED <<core_vars, check_mode, take_backups, create_rollback, exc>>

\* Lines 225-229: the rollback file, when the setting asks for one.
WriteRollback ==
    /\ pc = "rollback"
    /\ UNCHANGED <<conn_vars, other_vars>>
    /\ \E setting \in BOOLEAN :
        /\ create_rollback' = setting
        /\ IF WantsRollback(setting)
           THEN LET w == WriteFile(RollbackFilename(check_mode, take_backups), rollback)
                IN  IF w.raised
                    THEN /\ pc' = "raised"
                         /\ exc' = "TypeError"
                         /\ events' = RaisedEvents(events \o w.events)
                    ELSE /\ pc' = "finish"
                         /\ exc' = exc
                         /\ events' = events \o w.events
           ELSE /\ pc' = "finish"
                /\ exc' = exc
                /\ events' = events
    /\ UNCHANGED <<core_vars, check_mode, take_backups>>

\* Line 232: the session is ended and script_main returns.
EndSession ==
    /\ \/ pc = "finish"
       \/ pc = "done" /\ ~HasChanges(config_commands)
    /\ pc' = "ended"
    /\ events' = Append(events, <<"end_cisco_session">>)
    /\ UNCHANGED <<core_vars, check_mode, take_backups, create_rollback, exc>>
    /\ UNCHANGED <<conn_vars, other_vars>>

RunNext ==
    \/ Start
    \/ Next
    \/ WriteChangeFile
    \/ PushConfig
    \/ WriteRollback
    \/ EndSession

RunSpec == RunInit /\ [][RunNext]_vars

(***************************************************************************)
(* CRTScript.connect (securecrt_tools/scripts.py)                          *)
(***************************************************************************)

\* Values of the protocol argument; "" stands for None and for the empty
\* string, which "if not protocol" does not tell apart.
Protocols ==
    {"", "ssh", "SSH", "Ssh", "ssh2", "SSH2", "ssh1", "SSH1", "telnet",
     "Telnet", "TELNET", "ssh3", "rlogin", "serial"}

\* Values of the prompt_endings argument.
PromptEndings == { <<"#", ">">>, <<"#">>, <<"$">>, <<>> }

\* CRTScript.connect is about to be called.
ConnectInit ==
    /\ pc = "connect"
    /\ CoreInit
    /\ ConnInit
    /\ SaveInit
    /\ ImportInit
    /\ MultiInit
    /\ connected \in BOOLEAN
    /\ main_session = 0
    /\ synchronous \in BOOLEAN
    /\ ignore_escape \in BOOLEAN
    /\ tab_calls = <<>>
    /\ routine_exc = ""
    /\ check_mode = TRUE
    /\ take_backups = FALSE
    /\ create_rollback = FALSE
    /\ events = <<>>
    /\ exc = ""

\* Lines 743-760: where connect goes for a protocol, and the version it hands
\* to connect_ssh.
Dispatch(p) ==
    IF p = "" THEN [to |-> "connect_ssh", version |-> "None"]
    ELSE IF Lower(p) = "ssh" THEN [to |-> "connect_ssh", version |-> "None"]
    ELSE IF Lower(p) = "ssh2" THEN [to |-> "connect_ssh", version |-> "2"]
    ELSE IF Lower(p) = "ssh1" THEN [to |-> "connect_ssh", version |-> "1"]
    ELSE IF Lower(p) = "telnet" THEN [to |-> "connect_telnet", version |-> "None"]
    ELSE [to |-> "raise", version |-> "None"]

\* Lines 646-652: the attempt connect_ssh makes first.
FirstSsh(v) == IF v = "1" THEN "ssh1" ELSE "ssh2"

\* Whether a ConnectError has the attribute "message" its handlers read:
\* the class (lines 29-33) defines none, and Exception has none in Python 3,
\* the language of the module (line 38, "metaclass=").
HasMessage == FALSE

\* What a failed attempt leads to, given the protocol argument and the
\* version: the next attempt, or the exception that leaves connect.  The
\* handlers of connect_ssh read e.message first (lines 654 and 659), which
\* raises AttributeError; connect catches ConnectError alone.
AfterFailure(attempt, p, v) ==
    IF attempt = "ssh2"
    THEN IF v = "2" THEN [pc |-> "conn-raised", exc |-> "ConnectError"]
         ELSE IF HasMessage THEN [pc |-> "ssh1", exc |-> ""]
         ELSE [pc |-> "conn-raised", exc |-> "AttributeError"]
    ELSE IF attempt = "ssh1"
    THEN IF v = "1" THEN [pc |-> "conn-raised", exc |-> "ConnectError"]
         ELSE IF ~HasMessage THEN [pc |-> "conn-raised", exc |-> "AttributeError"]
         ELSE IF p = "" THEN [pc |-> "telnet", exc |-> ""]
         ELSE [pc |-> "conn-raised", exc |-> "ConnectError"]
    ELSE [pc |-> "conn-raised", exc |-> "ConnectError"]

\* connect is called: lines 740-760, and lines 643-652 of connect_ssh, up to
\* the first attempt.
ConnectCall ==
    /\ pc = "connect"
    /\ \E p \in Protocols, endings \in PromptEndings :
        /\ protocol' = p
        /\ prompt_endings' = endings
        /\ IF endings = <<>> \/ Dispatch(p).to = "raise"
           THEN /\ pc' = "conn-raised"
                /\ conn_exc' = "ConnectError"
                /\ version' = version
           ELSE /\ pc' = IF Dispatch(p).to = "connect_telnet" THEN "telnet"
                         ELSE FirstSsh(Dispatch(p).version)
                /\ conn_exc' = conn_exc
                /\ version' = Dispatch(p).version
    /\ UNCHANGED <<attempts, core_vars, run_vars, other_vars>>

\* The tab as the connect routines find it.
Tab ==
    [connected |-> connected, main_session |-> main_session,
     synchronous |-> synchronous, ignore_escape |-> ignore_escape,
     tab_calls |-> tab_calls]

\* A routine that does not look at the tab before it connects.
AlreadyConnectedIgnored(is_connected) == FALSE

\* "if self.main_session.is_connected()" (lines 558, 596, 693)
AlreadyConnected(is_connected) == is_connected

\* What a connect routine does to the tab, switch being the protocol switch
\* of its connect string and ok whether ConnectInTab connects: a connected
\* tab is refused before ConnectInTab is called; a failing ConnectInTab
\* leaves the session object and the screen as they are; otherwise
\* main_session becomes a new session object for the connected tab and its
\* screen is set up.  Every refusal and failure raises ConnectError.
ConnectRoutine(t, switch, ok) ==
    IF AlreadyConnected(t.connected)
    THEN [tab |-> t, raised |-> TRUE]
    ELSE IF ~ok
    THEN [tab |-> [t EXCEPT !.tab_calls = Append(@, switch)], raised |-> TRUE]
    ELSE [tab |-> [t EXCEPT !.tab_calls = Append(@, switch),
                            !.connected = TRUE,
                            !.main_session = @ + 1,
                            !.synchronous = TRUE,
                            !.ignore_escape = TRUE],
          raised |-> FALSE]

\* __connect_ssh_2 (lines 541-578): the attempt connects, or it raises
\* ConnectError.
TrySsh2 ==
    /\ pc = "ssh2"
    /\ attempts' = Append(attempts, "SSH2")
    /\ \E ok \in BOOLEAN :
        LET r == ConnectRoutine(Tab, "/SSH2", ok)
        IN  /\ connected' = r.tab.connected
            /\ main_session' = r.tab.main_session
            /\ synchronous' = r.tab.synchronous
            /\ ignore_escape' = r.tab.ignore_escape
            /\ tab_calls' = r.tab.tab_calls
            /\ routine_exc' = IF r.raised THEN "ConnectError" ELSE ""
            /\ IF ~r.raised
               THEN pc' = "connected" /\ conn_exc' = conn_exc
               ELSE /\ pc' = AfterFailure("ssh2", protocol, version).pc
                    /\ conn_exc' = AfterFailure("ssh2", protocol, version).exc
    /\ UNCHANGED <<protocol, prompt_endings, version, core_vars, run_vars,
                   script_vars>>

\* __connect_ssh_1 (lines 580-615)
TrySsh1 ==
    /\ pc = "ssh1"
    /\ attempts' = Append(attempts, "SSH1")
    /\ \E ok \in BOOLEAN :
        LET r == ConnectRoutine(Tab, "/SSH1", ok)
        IN  /\ connected' = r.tab.connected
            /\ main_session' = r.tab.main_session
            /\ synchronous' = r.tab.synchronous
            /\ ignore_escape' = r.tab.ignore_escape
            /\ tab_calls' = r.tab.tab_calls
            /\ routine_exc' = IF r.raised THEN "ConnectError" ELSE ""
            /\ IF ~r.raised
               THEN pc' = "connected" /\ conn_exc' = conn_exc
               ELSE /\ pc' = AfterFailure("ssh1", protocol, version).pc
                    /\ conn_exc' = AfterFailure("ssh1", protocol, version).exc
    /\ UNCHANGED <<protocol, prompt_endings, version, core_vars, run_vars,
                   script_vars>>

\* connect_telnet (lines 664-715)
TryTelnet ==
    /\ pc = "telnet"
    /\ attempts' = Append(attempts, "TELNET")
    /\ \E ok \in BOOLEAN :
        LET r == ConnectRoutine(Tab, "/TELNET", ok)
        IN  /\ connected' = r.tab.connected
            /\ main_session' = r.tab.main_session
            /\ synchronous' = r.tab.synchronous
            /\ ignore_escape' = r.tab.ignore_escape
            /\ tab_calls' = r.tab.tab_calls
            /\ routine_exc' = IF r.raised THEN "ConnectError" ELSE ""
            /\ IF ~r.raised
               THEN pc' = "connected" /\ conn_exc' = conn_exc
               ELSE /\ pc' = AfterFailure("telnet", protocol, version).pc
                    /\ conn_exc' = AfterFailure("telnet", protocol, version).exc
    /\ UNCHANGED <<protocol, prompt_endings, version, core_vars, run_vars,
                   script_vars>>

ConnectNext ==
    \/ ConnectCall
    \/ TrySsh2
    \/ TrySsh1
    \/ TryTelnet

ConnectSpec == ConnectInit /\ [][ConnectNext]_vars

(***************************************************************************)
(* s_save_output.py                                                        *)
(***************************************************************************)

\* What the user can enter at "Enter the command to capture"; Cancel gives
\* the empty string.
Commands ==
    {"", "show run", "show version", "show inventory", "show vlan",
     "show ip route", "show ip int brief", "show cdp neighbors detail",
     "show interface status", "show port-channel summary", "show mac address-table",
     "show ip arp", "show spanning-tree", "show logging", "sh ver", "?"}

\* The ways the script is launched (lines 69-93).
Launchers == {"crt", "direct"}

\* s_save_output is about to be launched.
SaveLaunchInit ==
    /\ pc = "save-start"
    /\ CoreInit
    /\ ConnInit
    /\ OtherInit
    /\ check_mode = TRUE
    /\ take_backups = FALSE
    /\ create_rollback = FALSE
    /\ events = <<>>
    /\ exc = ""

\* Lines 53-54: where script_main goes after the prompt.
AfterPrompt(cmd) == IF cmd = "" THEN "save-returned" ELSE "save-write"

\* The launch and lines 48-54 of script_main: the session is started and the
\* user is asked for the command.
SavePrompt ==
    /\ pc = "save-start"
    /\ \E l \in Launchers, cmd \in Commands :
        /\ launcher' = l
        /\ send_cmd' = cmd
        /\ pc' = AfterPrompt(cmd)
    /\ events' = Append(events, <<"start_cisco_session">>)
    /\ UNCHANGED <<core_vars, conn_vars, tab_vars, import_vars, multi_vars,
                   check_mode, take_backups, create_rollback, exc>>

\* Lines 56-60: the output of the command is written to its file, or the
\* device interaction raises; the handler of the SecureCRT launch (lines
\* 75-79) ends the session before the exception goes on, the direct launch
\* (line 90) has no handler.
SaveWrite ==
    /\ pc = "save-write"
    /\ \E ok \in BOOLEAN :
        IF ok
        THEN /\ pc' = "save-end"
             /\ events' = Append(events, <<"write_output_to_file", send_cmd>>)
             /\ exc' = exc
        ELSE /\ pc' = "save-raised"
             /\ events' = IF launcher = "crt" THEN RaisedEvents(events) ELSE events
             /\ exc' = "InteractionError"
    /\ UNCHANGED <<core_vars, conn_vars, other_vars, check_mode, take_backups,
                   create_rollback>>

\* Lines 62-63: the session is ended and script_main returns.
SaveEnd ==
    /\ pc = "save-end"
    /\ pc' = "save-returned"
    /\ events' = Append(events, <<"end_cisco_session">>)
    /\ UNCHANGED <<core_vars, conn_vars, other_vars, check_mode, take_backups,
                   create_rollback, exc>>

SaveNext ==
    \/ SavePrompt
    \/ SaveWrite
    \/ SaveEnd

SaveSpec == SaveLaunchInit /\ [][SaveNext]_vars

(***************************************************************************)
(* Script.import_device_list (securecrt_tools/scripts.py)                  *)
(***************************************************************************)

\* The value csv.DictReader gives a column the row is too short for (None).
NoField == "<None>"

\* The header rows of the CSV files.
Headers ==
    { {"Hostname", "Protocol", "Username", "Password", "Enable"},
      {"Hostname", "Protocol", "Username", "Password", "Enable", "Proxy Session"},
      {"Hostname", "Protocol", "Username", "Enable"},
      {"Hostname", "Protocol", "Username"},
      {"Hostname", "Protocol", "Password", "Enable"},
      {"Hostname", "Username", "Password", "Enable"},
      {"hostname", "protocol", "username", "password", "enable"} }

Device(h, p, u, pw, en) ==
    [Hostname |-> h, Protocol |-> p, Username |-> u, Password |-> pw, Enable |-> en]

\* The rows of the CSV files, as written under a header with all five columns.
CsvRows ==
    { Device("sw1", "ssh2", "admin", "pw1", "en1"),
      Device("sw2", "", "admin", "", ""),
      Device("sw3", "SSH", "", "", ""),
      Device("sw4", "Telnet", "oper", "", "en1"),
      Device("", "ssh2", "admin", "pw1", "en1"),
      Device("sw5", "rlogin", "admin", "pw1", ""),
      Device("sw6", NoField, NoField, NoField, NoField) }

\* What the user can answer at the three prompt windows and at the enable
\* question.
UsernameAnswers == {"", "admin"}

PasswordAnswers == {"", "secret"}

EnableAnswers == {"", "enable"}

EnableBoxResults == {"IDYES", "IDNO"}

\* "required_header.difference(header)" is not empty.
HeaderInvalid(h) == {"Hostname", "Protocol", "Username"} \ h # {}

\* The row as DictReader yields it under header h: a column the header lacks
\* is no key of the entry; lines 278-279 and 296-297 put "" there.
EntryUnder(h, row) ==
    [row EXCEPT !.Password = IF "Password" \in h THEN @ ELSE "",
                !.Enable = IF "Enable" \in h THEN @ ELSE ""]

\* Python's "not value" for a field.
Falsy(v) == v = "" \/ v = NoField

\* The protocols a row may name.
RowProtocols == {"", "ssh", "ssh1", "ssh2", "telnet"}

\* A lookup that finds no password.
KnowsPasswordNever(creds, u) == FALSE

\* "credentials[entry['Username']]" finds a password.
KnowsPassword(creds, u) == u \in DOMAIN creds

\* Lines 249-257: the row is skipped for its hostname or protocol, or the
\* protocol of a short row fails at ".lower()".
FirstChecks(e) ==
    IF Falsy(e.Hostname) THEN "skipped"
    ELSE IF e.Protocol = NoField THEN "AttributeError"
    ELSE IF Lower(e.Protocol) \notin RowProtocols THEN "skipped"
    ELSE "go on"

\* Lines 259-276: the username of the row, with the default username and the
\* prompt for it.
UsernameStep(e, du, answer) ==
    IF ~Falsy(e.Username)
    THEN [outcome |-> "go on", entry |-> e, default_username |-> du, prompts |-> <<>>]
    ELSE IF du # ""
    THEN [outcome |-> "go on", entry |-> [e EXCEPT !.Username = du],
          default_username |-> du, prompts |-> <<>>]
    ELSE [outcome |-> IF answer = "" THEN "ScriptError" ELSE "go on",
          entry |-> [e EXCEPT !.Username = answer],
          default_username |-> answer,
          prompts |-> << <<"prompt_window", "username", answer>> >>]

\* Lines 278-294: the password of the row, with the passwords given before
\* and the prompt for one.  An empty answer reaches line 292, whose argument
\* "line[0]" subscripts an int: TypeError.
PasswordStep(e, creds, answer) ==
    IF ~Falsy(e.Password)
    THEN [outcome |-> "go on", entry |-> e, credentials |-> creds, prompts |-> <<>>]
    ELSE IF KnowsPassword(creds, e.Username)
    THEN [outcome |-> "go on", entry |-> [e EXCEPT !.Password = creds[e.Username]],
          credentials |-> creds, prompts |-> <<>>]
    ELSE [outcome |-> IF answer = "" THEN "TypeError" ELSE "go on",
          entry |-> [e EXCEPT !.Password = answer],
          credentials |-> IF answer = "" THEN creds ELSE DictSet(creds, e.Username, answer),
          prompts |-> << <<"prompt_window", "password", e.Username, answer>> >>]

\* Lines 296-312: the enable password of the row, with the default enable
\* password, the question whether to set one, and the prompt for it.
EnableStep(e, de, pe, box, answer) ==
    IF ~Falsy(e.Enable)
    THEN [entry |-> e, default_enable |-> de, prompt_enable |-> pe, prompts |-> <<>>]
    ELSE IF de # ""
    THEN [entry |-> [e EXCEPT !.Enable = de], default_enable |-> de,
          prompt_enable |-> pe, prompts |-> <<>>]
    ELSE IF ~pe
    THEN [entry |-> e, default_enable |-> de, prompt_enable |-> pe, prompts |-> <<>>]
    ELSE IF box = "IDYES"
    THEN [entry |-> [e EXCEPT !.Enable = answer], default_enable |-> answer,
          prompt_enable |-> pe,
          prompts |-> << <<"message_box", "enable", box>>,
                         <<"prompt_window", "enable", answer>> >>]
    ELSE [entry |-> e, default_enable |-> de, prompt_enable |-> FALSE,
          prompts |-> << <<"message_box", "enable", box>> >>]

\* import_device_list is about to be called.
ImportCallInit ==
    /\ pc = "import-start"
    /\ CoreInit
    /\ ConnInit
    /\ OtherInit
    /\ check_mode = TRUE
    /\ take_backups = FALSE
    /\ create_rollback = FALSE
    /\ events = <<>>
    /\ exc = ""

\* Lines 212-243: the file dialog gives no file name and the method returns
\* None, or the file is opened and its header row is read and checked.
ImportOpen ==
    /\ pc = "import-start"
    /\ \E chosen \in BOOLEAN, h \in Headers :
        IF ~chosen
        THEN pc' = "import-none" /\ header' = header /\ exc' = exc
        ELSE /\ header' = h
             /\ pc' = IF HeaderInvalid(h) THEN "import-raised" ELSE "import-rows"
             /\ exc' = IF HeaderInvalid(h) THEN "ScriptError" ELSE exc
    /\ UNCHANGED <<core_vars, conn_vars, save_vars, tab_vars, multi_vars, check_mode,
                   take_backups, create_rollback, events, csv_entry, lines_read,
                   device_list, skipped_lines, default_username, default_enable,
                   prompt_enable, credentials>>

\* One iteration of the loop over the rows (lines 245-314).
ImportRow ==
    /\ pc = "import-rows"
    /\ lines_read < MaxCsvRows
    /\ \E row \in CsvRows, ua \in UsernameAnswers, pa \in PasswordAnswers,
          box \in EnableBoxResults, ea \in EnableAnswers :
        LET e0 == EntryUnder(header, row)
            first == FirstChecks(e0)
            us == UsernameStep(e0, default_username, ua)
            ps == PasswordStep(us.entry, credentials, pa)
            es == EnableStep(ps.entry, default_enable, prompt_enable, box, ea)
        IN  /\ csv_entry' = e0
            /\ lines_read' = lines_read + 1
            /\ IF first = "skipped"
               THEN /\ skipped_lines' = skipped_lines + 1
                    /\ UNCHANGED <<pc, exc, events, device_list, default_username,
                                   default_enable, prompt_enable, credentials>>
               ELSE IF first # "go on"
               THEN /\ pc' = "import-raised"
                    /\ exc' = first
                    /\ UNCHANGED <<events, device_list, skipped_lines,
                                   default_username, default_enable,
                                   prompt_enable, credentials>>
               ELSE IF us.outcome # "go on"
               THEN /\ pc' = "import-raised"
                    /\ exc' = us.outcome
                    /\ events' = events \o us.prompts
                    /\ default_username' = us.default_username
                    /\ UNCHANGED <<device_list, skipped_lines, default_enable,
                                   prompt_enable, credentials>>
               ELSE IF ps.outcome # "go on"
               THEN /\ pc' = "import-raised"
                    /\ exc' = ps.outcome
                    /\ events' = events \o us.prompts \o ps.prompts
                    /\ default_username' = us.default_username
                    /\ credentials' = ps.credentials
                    /\ UNCHANGED <<device_list, skipped_lines, default_enable,
                                   prompt_enable>>
               ELSE /\ device_list' = Append(device_list, es.entry)
                    /\ events' = events \o us.prompts \o ps.prompts \o es.prompts
                    /\ default_username' = us.default_username
                    /\ credentials' = ps.credentials
                    /\ default_enable' = es.default_enable
                    /\ prompt_enable' = es.prompt_enable
                    /\ UNCHANGED <<pc, exc, skipped_lines>>
    /\ UNCHANGED <<core_vars, conn_vars, save_vars, tab_vars, multi_vars, check_mode,
                   take_backups, create_rollback, header>>

\* Lines 316-330: the rows are exhausted; the user is shown the counts and
\* the method returns the list, or None when the user cancels.
ImportReturn ==
    /\ pc = "import-rows"
    /\ \E result \in {"IDOK", "IDCANCEL"} :
        /\ pc' = IF result = "IDCANCEL" THEN "import-none" ELSE "import-returned"
        /\ events' = Append(events, <<"message_box", "proceed", Len(device_list),
                                      skipped_lines, result>>)
    /\ UNCHANGED <<core_vars, conn_vars, other_vars, check_mode, take_backups,
                   create_rollback, exc>>

ImportNext ==
    \/ ImportOpen
    \/ ImportRow
    \/ ImportReturn

ImportSpec == ImportCallInit /\ [][ImportNext]_vars

(***************************************************************************)
(* m_save_output.py                                                        *)
(***************************************************************************)

\* Most devices of an imported device list.
MaxDevices == 3

\* The devices import_device_list can return: each has a hostname, one of
\* the protocols of RowProtocols, a username and a password.
LoopDevices ==
    { Device("sw1", "", "admin", "pw1", "en1"),
      Device("sw2", "ssh2", "admin", "pw1", ""),
      Device("sw3", "Telnet", "oper", "secret", "en1") }

\* The lists of at most n devices.
RECURSIVE DeviceLists(_)
DeviceLists(n) ==
    IF n = 0 THEN { <<>> }
    ELSE DeviceLists(n - 1) \cup
         { Append(l, d) : l \in { x \in DeviceLists(n - 1) : Len(x) = n - 1 },
                          d \in LoopDevices }

\* The exceptions per_device_work can raise: the two of sessions.py that the
\* loop names, and one of Python's own.
SessionErrors == {"InteractionError", "UnsupportedOSError"}

WorkErrors == SessionErrors \cup {"OSError"}

\* The switch of the connect string of the routine connect tries first.
FirstSwitch(p) ==
    IF Dispatch(p).to = "connect_telnet" THEN "/TELNET"
    ELSE IF FirstSsh(Dispatch(p).version) = "ssh1" THEN "/SSH1"
    ELSE "/SSH2"

\* The exception connect leaves with when the routine it tries first fails.
ConnectFailure(p) ==
    IF Dispatch(p).to = "connect_telnet" THEN "ConnectError"
    ELSE AfterFailure(FirstSsh(Dispatch(p).version), p, Dispatch(p).version).exc

\* The words with which a handler of the loop starts its log line.
LogLabel(error) ==
    IF error = "ConnectError" THEN "Connect to"
    ELSE IF error = "InteractionError" THEN "Failure on"
    ELSE IF error = "UnsupportedOSError" THEN "Unsupported OS on"
    ELSE "Exception on"

\* Whether "e.message" can be read in the handler: a ConnectError and the
\* exceptions of Python have no such attribute; for the exceptions of
\* sessions.py it is as given.
MessageReadable(error, given) ==
    IF error = "ConnectError" THEN HasMessage
    ELSE IF error \in SessionErrors THEN given
    ELSE FALSE

\* m_save_output is about to be launched, on a tab that may be connected.
MultiLaunchInit ==
    /\ pc = "multi-start"
    /\ CoreInit
    /\ ConnInit
    /\ SaveInit
    /\ ImportInit
    /\ MultiInit
    /\ connected \in BOOLEAN
    /\ main_session = 0
    /\ synchronous \in BOOLEAN
    /\ ignore_escape \in BOOLEAN
    /\ tab_calls = <<>>
    /\ routine_exc = ""
    /\ check_mode = TRUE
    /\ take_backups = FALSE
    /\ create_rollback = FALSE
    /\ events = <<>>
    /\ exc = ""

\* Lines 44-68: a connected tab raises ScriptError; otherwise the device list
\* is imported and the command asked for, and script_main returns when either
\* is empty.
MultiStart ==
    /\ pc = "multi-start"
    /\ IF connected
       THEN /\ pc' = "multi-raised"
            /\ exc' = "ScriptError"
            /\ UNCHANGED <<events, device_list, send_cmd>>
       ELSE \E l \in DeviceLists(MaxDevices), cmd \in {"", "show version"} :
            /\ device_list' = l
            /\ exc' = exc
            /\ IF l = <<>>
               THEN /\ pc' = "multi-returned"
                    /\ events' = << <<"import_device_list">> >>
                    /\ send_cmd' = send_cmd
               ELSE /\ pc' = IF cmd = "" THEN "multi-returned" ELSE "multi-loop"
                    /\ events' = << <<"import_device_list">>, <<"prompt_window", cmd>> >>
                    /\ send_cmd' = cmd
    /\ UNCHANGED <<core_vars, conn_vars, tab_vars, multi_vars, launcher,
                   check_mode, take_backups, create_rollback, header, csv_entry,
                   lines_read, skipped_lines, default_username, default_enable,
                   prompt_enable, credentials>>

\* Lines 72-88 and 92-107: the loop takes the next device and calls connect,
\* which connects or raises; the handler for the exception writes its line
\* to the failure log, disconnects and lets the loop go on, unless reading
\* e.message raises AttributeError, which leaves the loop and script_main.
MultiConnect ==
    /\ pc = "multi-loop"
    /\ dev_idx < Len(device_list)
    /\ LET device == device_list[dev_idx + 1]
           error == ConnectFailure(device.Protocol)
       IN  /\ dev_idx' = dev_idx + 1
           /\ attempted' = Append(attempted, device.Hostname)
           /\ tab_calls' = Append(tab_calls, FirstSwitch(device.Protocol))
           /\ \E ok \in BOOLEAN :
               IF ok
               THEN /\ pc' = "multi-work"
                    /\ connected' = TRUE
                    /\ main_session' = main_session + 1
                    /\ synchronous' = TRUE
                    /\ ignore_escape' = TRUE
                    /\ routine_exc' = ""
                    /\ UNCHANGED <<exc, failed, failed_log>>
               ELSE /\ failed' = Append(failed, device.Hostname)
                    /\ routine_exc' = "ConnectError"
                    /\ UNCHANGED <<connected, main_session, synchronous, ignore_escape>>
                    /\ IF MessageReadable(error, FALSE)
                       THEN /\ pc' = pc
                            /\ exc' = exc
                            /\ failed_log' = Append(failed_log, <<LogLabel(error), device.Hostname>>)
                       ELSE /\ pc' = "multi-raised"
                            /\ exc' = "AttributeError"
                            /\ failed_log' = failed_log
    /\ UNCHANGED <<core_vars, conn_vars, save_vars, import_vars, check_mode,
                   take_backups, create_rollback, events>>

\* Lines 89-91 and 96-107: per_device_work runs on the connected session and
\* the script disconnects it, or per_device_work raises and the handler for
\* the exception is run as in MultiConnect.
MultiWork ==
    /\ pc = "multi-work"
    /\ \E ok \in BOOLEAN, error \in WorkErrors, given \in BOOLEAN :
        IF ok
        THEN /\ pc' = "multi-loop"
             /\ connected' = FALSE
             /\ events' = events \o << <<"start_cisco_session">>,
                                       <<"write_output_to_file", send_cmd>>,
                                       <<"end_cisco_session">> >>
             /\ UNCHANGED <<exc, failed, failed_log>>
        ELSE /\ failed' = Append(failed, device_list[dev_idx].Hostname)
             /\ events' = Append(events, <<"start_cisco_session">>)
             /\ IF MessageReadable(error, given)
                THEN /\ pc' = "multi-loop"
                     /\ exc' = exc
                     /\ connected' = FALSE
                     /\ failed_log' = Append(failed_log,
                                             <<LogLabel(error), device_list[dev_idx].Hostname>>)
                ELSE /\ pc' = "multi-raised"
                     /\ exc' = "AttributeError"
                     /\ connected' = connected
                     /\ failed_log' = failed_log
    /\ UNCHANGED <<core_vars, conn_vars, save_vars, import_vars, check_mode,
                   take_backups, create_rollback, dev_idx, attempted,
                   main_session, synchronous, ignore_escape, tab_calls, routine_exc>>

\* The loop is over and script_main returns.
MultiDone ==
    /\ pc = "multi-loop"
    /\ dev_idx = Len(device_list)
    /\ pc' = "multi-returned"
    /\ UNCHANGED <<core_vars, run_vars, conn_vars, other_vars>>

MultiNext ==
    \/ MultiStart
    \/ MultiConnect
    \/ MultiWork
    \/ MultiDone

MultiSpec == MultiLaunchInit /\ [][MultiNext]_vars

(***************************************************************************)
(* Reading the plan back                                                   *)
(***************************************************************************)

\* The interfaces the synthesis loop has finished with.
Processed ==
    IF pc \in {"synth", "done", "error"}
    THEN { intf_list[k] : k \in 1..(idx - 1) }
    ELSE {}

\* Number of two-line entries of a command list.
Entries(lines) == Len(lines) \div 2

\* The interface named by an "interface <name>" line.
InterfaceOf(line) == Drop(line, Len("interface "))

\* The interfaces entered by a command list.
InterfacesIn(lines) ==
    { InterfaceOf(lines[k]) : k \in { m \in 1..Len(lines) : StartsWith(lines[m], "interface ") } }

\* The description the branch of the loop for this interface assigns, when it
\* assigns one.
Assigns(interface) ==
    ComputedDesc(interface, description_data, "", FALSE).bound

Assigned(interface) ==
    ComputedDesc(interface, description_data, "", FALSE).desc

RECURSIVE ApplyFrom(_, _, _, _)
\* The description table after a device has taken lines[i..], cur being the
\* interface entered last: " description X" sets cur's description to X and
\* " no description" empties it.
ApplyFrom(table, lines, i, cur) ==
    IF i > Len(lines) THEN table
    ELSE IF StartsWith(lines[i], "interface ")
    THEN ApplyFrom(table, lines, i + 1, InterfaceOf(lines[i]))
    ELSE IF lines[i] = " no description"
    THEN ApplyFrom(DictSet(table, cur, ""), lines, i + 1, cur)
    ELSE IF StartsWith(lines[i], " description ")
    THEN ApplyFrom(DictSet(table, cur, Drop(lines[i], Len(" description "))),
                   lines, i + 1, cur)
    ELSE ApplyFrom(table, lines, i + 1, cur)

\* The table after the device has taken all of lines.
ApplyLines(table, lines) == ApplyFrom(table, lines, 1, "")

\* Two description tables agree on every interface, an interface without an
\* entry having the empty description.
SameDescriptions(t, u) ==
    \A i \in DOMAIN t \cup DOMAIN u : ExistingDesc(t, i) = ExistingDesc(u, i)

(***************************************************************************)
(* Claims                                                                  *)
(***************************************************************************)

\* C1 (no-op guarantee): an interface the loop has processed whose computed
\* description equals its existing description (no entry counting as the
\* empty description) is entered by no line of config_commands or rollback.
C1_NoOpGuarantee ==
    \A i \in Processed :
        (Assigns(i) /\ Assigned(i) = ExistingDesc(ex_desc_lookup, i))
            => i \notin InterfacesIn(config_commands) \cup InterfacesIn(rollback)

\* C1 witness: the loop is over, some interface was left out because its
\* description is already the computed one, and another one was changed.
C1_Witness ==
    /\ pc = "done"
    /\ config_commands # <<>>
    /\ \E i \in Processed :
        /\ Assigns(i)
        /\ Assigned(i) = ExistingDesc(ex_desc_lookup, i)
        /\ i \notin InterfacesIn(config_commands)

\* C2 (alignment): in every state of the loop config_commands and rollback
\* have the same even length; line 2k-1 of both is the same "interface <name>"
\* line, line 2k of config_commands sets a description and line 2k of rollback
\* removes or restores one.
C2_Alignment ==
    /\ Len(config_commands) = Len(rollback)
    /\ Len(config_commands) % 2 = 0
    /\ \A k \in 1..Entries(config_commands) :
        /\ StartsWith(config_commands[2 * k - 1], "interface ")
        /\ config_commands[2 * k - 1] = rollback[2 * k - 1]
        /\ StartsWith(config_commands[2 * k], " description ")
        /\ \/ rollback[2 * k] = " no description"
           \/ StartsWith(rollback[2 * k], " description ")

\* C2 witness: a finished plan of two entries or more, one of whose rollback
\* entries removes a description and another restores one.
C2_Witness ==
    /\ pc = "done"
    /\ Entries(config_commands) >= 2
    /\ \E k \in 1..Entries(rollback) : rollback[2 * k] = " no description"
    /\ \E k \in 1..Entries(rollback) : StartsWith(rollback[2 * k], " description ")

\* C3 (rollback correctness): a device that takes config_commands and then
\* rollback ends with the description table it began with, and a rollback
\* entry is " no description" exactly when the interface had no description.
C3_RollbackCorrect ==
    /\ SameDescriptions(
          ApplyLines(ApplyLines(ex_desc_lookup, config_commands), rollback),
          ex_desc_lookup)
    /\ \A k \in 1..Entries(rollback) :
        (rollback[2 * k] = " no description")
            <=> (ExistingDesc(ex_desc_lookup, InterfaceOf(rollback[2 * k - 1])) = "")

\* C3 witness: a finished plan that overwrites a description the device had
\* and sets one on an interface that had none.
C3_Witness ==
    /\ pc = "done"
    /\ ~SameDescriptions(ApplyLines(ex_desc_lookup, config_commands), ex_desc_lookup)
    /\ \E i \in InterfacesIn(config_commands) : ExistingDesc(ex_desc_lookup, i) # ""
    /\ \E i \in InterfacesIn(config_commands) : ExistingDesc(ex_desc_lookup, i) = ""

\* The description an interface has once the device has taken
\* config_commands: the one the plan sets, or the existing one when the plan
\* leaves the interface alone.
PlannedDesc(interface) ==
    ExistingDesc(ApplyLines(ex_desc_lookup, config_commands), interface)

\* C4 (duplicate collapse): when extract_cdp_data's loop body runs on a row
\* whose local interface was seen before, the map has no entry for that
\* interface afterwards.
C4_DuplicateCollapse ==
    [][ (/\ pc = "cdp"
         /\ rows' = rows + 1
         /\ long_int_name(entry'[1]) \in found_intfs)
            => long_int_name(entry'[1]) \notin DOMAIN description_data' ]_vars

\* C5 (aggregate skipped): no exception ends the loop, and a processed
\* port-channel whose neighbor list has neither one nor two names is entered
\* by no line of config_commands or rollback.
C5_AggregateSkipped ==
    /\ pc # "error"
    /\ \A i \in Processed :
        (IsPortChannel(i) /\ Len(description_data[i]) \notin {1, 2})
            => i \notin InterfacesIn(config_commands) \cup InterfacesIn(rollback)

\* C6 (vPC labelling): a processed port-channel with exactly two neighbors
\* ends with the description "vPC: A, B", A and B being its two distinct
\* neighbor names, B not before A in natural order, and the same label comes
\* out when the two names were collected in the other order.
C6_VpcLabel ==
    \A i \in Processed :
        (IsPortChannel(i) /\ Len(description_data[i]) = 2)
            => /\ \E a, b \in Range(description_data[i]) :
                    /\ a # b
                    /\ ~NaturalLess(b, a)
                    /\ PlannedDesc(i) = "vPC: " \o a \o ", " \o b
               /\ PortChannelDesc(<<description_data[i][2], description_data[i][1]>>,
                                  "", FALSE).desc = PlannedDesc(i)

\* C7 (physical interfaces): a processed interface that is no port-channel
\* ends with the description "<system name> <short remote interface>" of its
\* own entry, one space between the two.
C7_PhysicalDesc ==
    \A i \in Processed :
        ~IsPortChannel(i)
            => PlannedDesc(i) =
                 description_data[i][1] \o " " \o short_int_name(description_data[i][2])

\* C7 witness: the plan sets the description of Ethernet1/2 to its neighbor's
\* name and abbreviated port, and gives another interface another name.
C7_Witness ==
    /\ pc = "done"
    /\ "Ethernet1/2" \in InterfacesIn(config_commands)
    /\ PlannedDesc("Ethernet1/2") = "SW1 Eth1/49"
    /\ \E i \in InterfacesIn(config_commands) :
        ~IsPortChannel(i) /\ description_data[i][1] # "SW1"

\* C8 (natural ordering): the interfaces entered by config_commands, and by
\* rollback, are in strictly ascending natural order.
C8_NaturalOrder ==
    \A k, m \in 1..Entries(config_commands) :
        k < m => /\ NaturalLess(InterfaceOf(config_commands[2 * k - 1]),
                                InterfaceOf(config_commands[2 * m - 1]))
                 /\ NaturalLess(InterfaceOf(rollback[2 * k - 1]),
                                InterfaceOf(rollback[2 * m - 1]))

\* C8 witness: a finished plan that enters Ethernet1/2 before Ethernet1/10
\* and a port-channel after both.
C8_Witness ==
    /\ pc = "done"
    /\ Entries(config_commands) >= 3
    /\ \E k \in 1..(Entries(config_commands) - 1) :
        /\ config_commands[2 * k - 1] = "interface Ethernet1/2"
        /\ config_commands[2 * k + 1] = "interface Ethernet1/10"
    /\ \E i \in InterfacesIn(config_commands) : IsPortChannel(i)

\* C9 (determinism): a second run of the loop on the same neighbor map and
\* description table, the names of a port-channel having come out of the set
\* in any other order, yields the config_commands and rollback of this run.
C9_Deterministic ==
    pc = "done" =>
        \A k \in DOMAIN description_data :
            IsPortChannel(k) =>
                \A p \in Perms(Range(description_data[k])) :
                    \A l \in SortedLists(DOMAIN description_data) :
                        LET st == RunLoop(LoopStart, l, 1,
                                          DictSet(description_data, k, p),
                                          ex_desc_lookup)
                        IN  /\ st.config_commands = config_commands
                            /\ st.rollback = rollback

\* C10 (port-channel merge): the loop body of add_port_channels, run on a
\* row, leaves under the row's name the distinct system names of the members
\* present in the map; when no member is present the name's entry is neither
\* made nor changed; every other entry is as before.
C10_PortChannelMerge ==
    [][ (pc = "portchannel" /\ rows' = rows + 1) =>
          LET po      == long_int_name(entry'[1])
              present == { long_int_name(entry'[5][k]) : k \in 1..Len(entry'[5]) }
                            \cap DOMAIN description_data
              names   == { description_data[m][1] : m \in present }
          IN  /\ names # {} =>
                    /\ po \in DOMAIN description_data'
                    /\ Range(description_data'[po]) = names
                    /\ Len(description_data'[po]) = Cardinality(names)
              /\ names = {} =>
                    /\ (po \in DOMAIN description_data') = (po \in DOMAIN description_data)
                    /\ po \in DOMAIN description_data
                          => description_data'[po] = description_data[po]
              /\ DOMAIN description_data' \ {po} = DOMAIN description_data \ {po}
              /\ \A k \in DOMAIN description_data \ {po} :
                    description_data'[k] = description_data[k] ]_vars

\* C10 witness: the row of Po2, one of whose two members is in the map, has
\* been merged: port-channel2 holds that member's neighbor alone, beside the
\* entry an earlier row made for port-channel1.
C10_Witness ==
    /\ pc = "portchannel"
    /\ rows = 2
    /\ entry[1] = "Po2"
    /\ "port-channel2" \in DOMAIN description_data
    /\ "Ethernet1/10" \in DOMAIN description_data
    /\ description_data["port-channel2"] = <<description_data["Ethernet1/10"][1]>>
    /\ "port-channel1" \in DOMAIN description_data
    /\ Len(description_data["port-channel1"]) = 2

(***************************************************************************)
(* Reading the run back                                                    *)
(***************************************************************************)

\* The positions in events of the calls and file operations of one kind.
EventsOf(kind) == { k \in 1..Len(events) : events[k][1] = kind }

\* The positions of the calls of send_config_commands, and of save.
Sent == EventsOf("send_config_commands")

Saved == EventsOf("save")

\* The positions at which the file of this name was opened for writing, or
\* written by write_output_to_file.
Opened(name) == { k \in EventsOf("open") : events[k][2] = name }

BackedUp(name) == { k \in EventsOf("write_output_to_file") : events[k][2] = name }

\* The lines the file of this name holds: those the writes to it put there.
FileLines(name) ==
    LET writes == SelectSeq(events, LAMBDA e : e[1] = "write" /\ e[2] = name)
    IN  [k \in 1..Len(writes) |-> writes[k][3]]

\* The names the change file and the rollback file can have.
ChangeFiles == {"intf-desc"}

RollbackFiles == {"intf-rollback", "4-ROLLBACK", "ROLLBACK"}

\* The synthesis loop has run to its end.
PlanReady == pc \in {"done", "rollback", "finish"} \/ (pc = "ended" /\ idx >= 1)

\* C11 (empty plan): once the loop is over with no interface needing a
\* change, config_commands and rollback are both empty, no change file and no
\* rollback file is opened, nothing is sent, the configuration is not saved,
\* and the run ends by end_cisco_session without an exception.
C11_EmptyPlanNoOp ==
    (PlanReady /\ config_commands = <<>>) =>
        /\ rollback = <<>>
        /\ EventsOf("open") = {}
        /\ Sent = {}
        /\ Saved = {}
        /\ exc = ""
        /\ pc \in {"done", "ended"}
        /\ pc = "done" => ENABLED EndSession
        /\ pc = "ended" => events[Len(events)] = <<"end_cisco_session">>

\* C11 witness: a run in apply mode has ended after the loop went over an
\* interface whose description was already the computed one.
C11_Witness ==
    /\ pc = "ended"
    /\ ~check_mode
    /\ idx > 1
    /\ config_commands = <<>>
    /\ events[Len(events)] = <<"end_cisco_session">>

\* C12 (rollback artifact): a rollback file is opened only when the
\* rollback_file setting was read as true and the plan is not empty, and the
\* file then holds exactly the lines of rollback, in order.
C12_RollbackArtifact ==
    \A name \in RollbackFiles :
        Opened(name) # {} =>
            /\ create_rollback
            /\ config_commands # <<>>
            /\ FileLines(name) = rollback

ShortRecord == fsm_entry \in CdpShortRows \cup PcShortRows

\* C14 (invalid record), as claimed: a neighbor or port-channel record that
\* lacks a field ends script_main with an InvalidRecordError; no line of
\* config_commands or rollback exists, no change or rollback file is opened,
\* nothing is sent or saved, and the run takes no further step.
C14_InvalidRecordAborts ==
    ShortRecord =>
        /\ pc = "raised"
        /\ exc = "InvalidRecordError"
        /\ config_commands = <<>>
        /\ rollback = <<>>
        /\ EventsOf("open") = {}
        /\ Sent = {}
        /\ Saved = {}
        /\ ~ENABLED RunNext

\* C14, amended: the exception is the IndexError of the failed indexing; the
\* rest is as claimed.
C14_ShortRecordAborts ==
    ShortRecord =>
        /\ pc = "raised"
        /\ exc = "IndexError"
        /\ config_commands = <<>>
        /\ rollback = <<>>
        /\ EventsOf("open") = {}
        /\ Sent = {}
        /\ Saved = {}
        /\ ~ENABLED RunNext

\* C14 witness: a run in apply mode that had merged a CDP neighbor was ended
\* by a port-channel row without its member column.
C14_Witness ==
    /\ pc = "raised"
    /\ exc = "IndexError"
    /\ fsm_entry \in PcShortRows
    /\ ~check_mode
    /\ events[Len(events)] = <<"end_cisco_session">>

\* WRITTEN: the change file holds the lines of config_commands.
Written == Opened("intf-desc") # {} /\ FileLines("intf-desc") = config_commands

\* APPLIED: config_commands was pushed to the device, once.
Applied == Cardinality(Sent) = 1

\* script_main is past the branch that writes or pushes a plan.
PastOutput ==
    pc \in {"rollback", "finish", "ended"} \/ (pc = "raised" /\ exc = "TypeError")

\* C16 (state progression): no line of the plan exists before the neighbor
\* map and the port-channel merge are complete; no file of the plan is opened
\* and nothing is sent or saved before the loop over the interfaces is over;
\* once script_main is past its output branch with a plan that is not empty,
\* exactly one of WRITTEN and APPLIED has happened; and a rollback file is
\* opened only after the push, or after the change file was written.
C16_Progression ==
    /\ pc \in {"start", "desc", "cdp", "portchannel"}
          => config_commands = <<>> /\ rollback = <<>>
    /\ (EventsOf("open") \cup Sent \cup Saved) # {}
          => idx > Len(intf_list) /\ pc \in {"rollback", "finish", "ended", "raised"}
    /\ (PastOutput /\ HasChanges(config_commands)) => (Written # Applied)
    /\ \A name \in RollbackFiles :
          \A k \in Opened(name) :
              \/ \E j \in Sent : j < k
              \/ Written /\ \E j \in Opened("intf-desc") : j < k

\* C17 (backup ordering): in a run with take_backups every push comes after
\* a BEFORE backup and is followed by an AFTER backup that comes before every
\* save; and a run that has ended has a BEFORE backup exactly if it has an
\* AFTER backup.
C17_BackupOrdering ==
    /\ take_backups =>
          \A k \in Sent :
              /\ \E b \in BackedUp("1-show-run-BEFORE") : b < k
              /\ \E a \in BackedUp("3-show-run-AFTER") :
                    k < a /\ \A v \in Saved : a < v
    /\ pc = "ended" =>
          ((BackedUp("1-show-run-BEFORE") # {}) <=> (BackedUp("3-show-run-AFTER") # {}))

\* C18 (apply mode): send_config_commands is called at most once, only in
\* apply mode, and with all of config_commands in order; save is called at
\* most once and only after the push; and once a run in apply mode with a
\* plan is past its output branch, both have been called exactly once.
C18_ApplyOnce ==
    /\ Cardinality(Sent) <= 1
    /\ Cardinality(Saved) <= 1
    /\ \A k \in Sent :
          ~check_mode /\ HasChanges(config_commands) /\ events[k][2] = config_commands
    /\ \A v \in Saved : \E k \in Sent : k < v
    /\ (~check_mode /\ PastOutput /\ HasChanges(config_commands))
          => Cardinality(Sent) = 1 /\ Cardinality(Saved) = 1

\* C18 witness: a run in apply mode has ended after pushing a plan of two
\* entries or more and saving the configuration.
C18_Witness ==
    /\ pc = "ended"
    /\ ~check_mode
    /\ Entries(config_commands) >= 2
    /\ \E k \in Sent : events[k][2] = config_commands
    /\ Saved # {}

\* The system name the neighbor map holds for the record at hand.
StoredName == description_data[long_int_name(fsm_entry[1])][1]

\* The name script_main derives from the record's device id.
DerivedName == extract_system_name(fsm_entry[2], strip_list)

\* C15 (system-name resolution), as claimed: the stored system name is the
\* record's own when that is neither empty nor "localhost", and the name
\* derived from the device id otherwise; and with a device id that is not
\* empty the stored name is neither empty nor "localhost".
C15_SystemNameTrigger ==
    (pc = "name" /\ rows = 1) =>
        /\ fsm_entry[3] \notin {"", "localhost"} => StoredName = fsm_entry[3]
        /\ fsm_entry[3] \in {"", "localhost"} => StoredName = DerivedName
        /\ fsm_entry[2] # "" => StoredName \notin {"", "localhost"}

\* C15, amended: the stored name is empty or "localhost" only when the name
\* derived from the device id is; the rest is as claimed.
C15_SystemNameResolved ==
    (pc = "name" /\ rows = 1) =>
        /\ fsm_entry[3] \notin {"", "localhost"} => StoredName = fsm_entry[3]
        /\ fsm_entry[3] \in {"", "localhost"} => StoredName = DerivedName
        /\ StoredName \in {"", "localhost"} => StoredName = DerivedName

\* C15 witness: a record whose system name is "localhost" is stored under
\* the name its device id gives once the domain is stripped.
C15_Witness ==
    /\ pc = "name"
    /\ rows = 1
    /\ fsm_entry[3] = "localhost"
    /\ fsm_entry[2] = "esx01.EXAMPLE.COM"
    /\ StoredName = "esx01"

\* s is the beginning of t.
IsPrefix(s, t) == Len(s) <= Len(t) /\ SubSeq(t, 1, Len(s)) = s

\* The call of connect is over.
ConnectOver == pc \in {"connected", "conn-raised"}

\* C19 (protocol fallback): a call of connect without a protocol attempts
\* SSH2, then SSH1, then Telnet, each at most once and each only after the
\* one before it failed; it is over as soon as one succeeds; and it ends with
\* an exception only when all three have failed, the exception being
\* ConnectError.
C19_FallbackOrder ==
    (pc # "connect" /\ protocol = "" /\ prompt_endings # <<>>) =>
        /\ IsPrefix(attempts, <<"SSH2", "SSH1", "TELNET">>)
        /\ pc = "conn-raised" =>
              /\ attempts = <<"SSH2", "SSH1", "TELNET">>
              /\ conn_exc = "ConnectError"

\* C20 (protocol dispatch): once a call of connect is over, "ssh" in any
\* case has attempted SSH2, and SSH1 after it when SSH2 failed, and nothing
\* else; "ssh2" SSH2 alone; "ssh1" SSH1 alone; "telnet" Telnet alone; any
\* other protocol that is not empty, and any call with empty prompt_endings,
\* has ended with ConnectError without an attempt.
C20_ProtocolDispatch ==
    ConnectOver =>
        /\ prompt_endings = <<>> =>
              attempts = <<>> /\ conn_exc = "ConnectError"
        /\ (prompt_endings # <<>> /\ protocol # "") =>
              IF Lower(protocol) = "ssh"
              THEN IF pc = "connected"
                   THEN attempts \in {<<"SSH2">>, <<"SSH2", "SSH1">>}
                   ELSE attempts = <<"SSH2", "SSH1">> /\ conn_exc = "ConnectError"
              ELSE IF Lower(protocol) = "ssh2" THEN attempts = <<"SSH2">>
              ELSE IF Lower(protocol) = "ssh1" THEN attempts = <<"SSH1">>
              ELSE IF Lower(protocol) = "telnet" THEN attempts = <<"TELNET">>
              ELSE attempts = <<>> /\ conn_exc = "ConnectError"

\* script_main returned from the check-mode prompt (line 86): the run has
\* ended before the synthesis loop was set up.
Cancelled == pc = "ended" /\ idx = 0

\* The positions of the requests for the output of a command.
ShowRequests == EventsOf("get_command_output") \cup EventsOf("write_output_to_file")

\* C23 (cancel at the prompt): with prompt_check_mode true, every answer but
\* Yes and No makes script_main return from the prompt; and a run that
\* returned from the prompt has started and ended the session and has done
\* nothing else: no command output requested, no file opened or written, no
\* configuration sent or saved, no exception.
C23_CancelFrame ==
    /\ pc = "start" =>
          \A param \in BOOLEAN, result \in MessageBoxResults \ {"IDYES", "IDNO"} :
              CheckModeAfterPrompt(TRUE, param, result).cancel
    /\ Cancelled =>
          /\ events = << <<"start_cisco_session">>, <<"end_cisco_session">> >>
          /\ ShowRequests = {}
          /\ EventsOf("open") = {} /\ EventsOf("write") = {}
          /\ Sent = {} /\ Saved = {}
          /\ exc = ""
          /\ config_commands = <<>> /\ rollback = <<>>

\* C23 witness: a run has returned from the prompt.
C23_Witness ==
    /\ Cancelled
    /\ Len(events) = 2
    /\ events[2] = <<"end_cisco_session">>

\* The positions of the calls that start and that end the session.
Starts == EventsOf("start_cisco_session")

Ends == EventsOf("end_cisco_session")

\* C24 (session pairing): while script_main runs, the session has been
\* started once, as the first call, and not ended; when script_main has
\* returned, and when an exception has left it under the SecureCRT launcher,
\* the session has been started once and ended once, the end being the last
\* call of the run.
C24_SessionPairing ==
    pc # "start" =>
        /\ Starts = {1}
        /\ pc \in {"ended", "raised"} => Ends = {Len(events)}
        /\ pc \notin {"ended", "raised"} => Ends = {}
        /\ pc = "ended" => exc = ""
        /\ pc = "raised" => exc # ""

\* C24 witness: a run in apply mode has pushed its plan and returned.
C24_Witness ==
    /\ pc = "ended"
    /\ Sent # {}
    /\ Saved # {}
    /\ Starts = {1}
    /\ Ends = {Len(events)}

\* C25 (session pairing in the save-output script): once script_main of
\* s_save_output has returned, the session it started has been ended, as the
\* last call of the run.
C25_SavePairing ==
    pc = "save-returned" =>
        /\ Starts = {1}
        /\ Ends = {Len(events)}

\* C28 (connecting while connected): a connect routine that is entered with
\* the main session connected raises ConnectError, calls ConnectInTab not at
\* all, leaves main_session the session object it was, leaves the screen's
\* Synchronous and IgnoreEscape as they were, and leaves the tab connected.
C28_ConnectedRejected ==
    [][ (connected /\ attempts' # attempts) =>
            /\ routine_exc' = "ConnectError"
            /\ tab_calls' = tab_calls
            /\ main_session' = main_session
            /\ synchronous' = synchronous
            /\ ignore_escape' = ignore_escape
            /\ connected' ]_vars

\* C28 witness: connect_telnet was entered on a connected tab whose screen
\* was not set up, and has raised.
C28_Witness ==
    /\ connected
    /\ attempts = <<"TELNET">>
    /\ routine_exc = "ConnectError"
    /\ tab_calls = <<>>
    /\ main_session = 0
    /\ ~synchronous
    /\ ~ignore_escape

\* The CSV file was opened and its header row read.
HeaderRead == header # {}

\* C21 (row partition): a header without Hostname, Protocol or Username ends
\* import_device_list with ScriptError before a row is read; under any other
\* header, and short of the ScriptError that a missing default username
\* raises, the rows read are those appended to the device list and those
\* counted in skipped_lines; and every device of the list has a non-empty
\* Hostname, one of the protocols '', ssh, ssh1, ssh2, telnet in any case, a
\* non-empty Username and a non-empty Password.
C21_RowPartition ==
    /\ (HeaderRead /\ HeaderInvalid(header)) =>
          pc = "import-raised" /\ exc = "ScriptError" /\ lines_read = 0
    /\ (HeaderRead /\ ~HeaderInvalid(header) /\ exc # "ScriptError") =>
          Len(device_list) + skipped_lines = lines_read
    /\ \A k \in 1..Len(device_list) :
          /\ ~Falsy(device_list[k].Hostname)
          /\ device_list[k].Protocol # NoField
          /\ Lower(device_list[k].Protocol) \in RowProtocols
          /\ ~Falsy(device_list[k].Username)
          /\ ~Falsy(device_list[k].Password)

\* The positions in ev of the prompts for the default username, of the
\* prompts for the password of user u, and of the enable question.
UsernamePrompts(ev) ==
    { k \in 1..Len(ev) : ev[k][1] = "prompt_window" /\ ev[k][2] = "username" }

PasswordPrompts(ev, u) ==
    { k \in 1..Len(ev) :
        ev[k][1] = "prompt_window" /\ ev[k][2] = "password" /\ ev[k][3] = u }

EnableQuestions(ev) ==
    { k \in 1..Len(ev) : ev[k][1] = "message_box" /\ ev[k][2] = "enable" }

EnablePrompts(ev) ==
    { k \in 1..Len(ev) : ev[k][1] = "prompt_window" /\ ev[k][2] = "enable" }

\* The usernames of the model.
Usernames == {"admin", "oper"}

\* The prompts made so far keep the discipline: the default username was
\* asked for at most once, and an empty answer has ended the import with
\* ScriptError; no password prompt for a user follows a prompt at which a
\* non-empty password was given for that user; and nothing about the enable
\* password is asked after the user declined to set a default.
PromptsDisciplined(ev, at, raised) ==
    /\ Cardinality(UsernamePrompts(ev)) <= 1
    /\ \A k \in UsernamePrompts(ev) :
          ev[k][3] = "" => (at = "import-raised" /\ raised = "ScriptError")
    /\ \A u \in Usernames : \A i, j \in PasswordPrompts(ev, u) :
          i < j => ev[i][4] = ""
    /\ \A i \in EnableQuestions(ev) : \A j \in EnableQuestions(ev) \cup EnablePrompts(ev) :
          (ev[i][3] # "IDYES" /\ i < j) => FALSE

\* The default enable password the user entered last, "" being one when
\* empty_counts.
AcceptedEnable(ev, empty_counts) ==
    { ev[k][3] : k \in { i \in EnablePrompts(ev) :
                            /\ empty_counts \/ ev[i][3] # ""
                            /\ \A j \in EnablePrompts(ev) : j <= i } }

\* This step appends a device whose row had no enable password, after a
\* default was accepted: the device gets that default and nothing is asked
\* about the enable password.
ReusesAccepted(empty_counts) ==
    \A d \in AcceptedEnable(events, empty_counts) :
        (Len(device_list') > Len(device_list) /\ Falsy(csv_entry'.Enable)) =>
            /\ device_list'[Len(device_list')].Enable = d
            /\ EnableQuestions(events') = EnableQuestions(events)
            /\ EnablePrompts(events') = EnablePrompts(events)

\* C22 (prompt discipline): after every step of the import the prompts keep
\* the discipline, and a row without an enable password that is appended
\* after a default enable password was entered, the empty one included, gets
\* that default without a further question.
C22_PromptDiscipline ==
    [][ PromptsDisciplined(events', pc', exc') /\ ReusesAccepted(TRUE) ]_vars

\* C22 as amended: the same, for a default enable password that is not empty.
C22_PromptDisciplineNonEmpty ==
    [][ PromptsDisciplined(events', pc', exc') /\ ReusesAccepted(FALSE) ]_vars

\* C22 witness: two rows of user admin without password and enable password
\* were appended after one password prompt and one enable question.
C22_Witness ==
    /\ Len(device_list) = 2
    /\ device_list[1] = Device("sw2", "", "admin", "secret", "enable")
    /\ device_list[2] = device_list[1]
    /\ Cardinality(PasswordPrompts(events, "admin")) = 1
    /\ Cardinality(EnableQuestions(events)) = 1

\* The hostnames of a device list, in its order.
Hostnames(l) == [k \in 1..Len(l) |-> l[k].Hostname]

\* script_main of m_save_output is over after it entered its loop.
LoopOver ==
    /\ pc \in {"multi-returned", "multi-raised"}
    /\ exc # "ScriptError"
    /\ device_list # <<>>
    /\ send_cmd # ""

\* C26 (failure isolation): the failure log has one line for every device
\* whose connection or work failed, in the order of the failures and naming
\* the device; and when script_main is over after it entered the loop,
\* connect was called once for every device of the list, in list order, and
\* the session is not connected.
C26_FailureIsolation ==
    /\ Len(failed_log) = Len(failed)
    /\ \A k \in 1..Len(failed_log) : failed_log[k][2] = failed[k]
    /\ LoopOver =>
          /\ attempted = Hostnames(device_list)
          /\ ~connected

\* C27 (one session at a time): a tab that is connected at the launch makes
\* script_main raise ScriptError without importing a device list or calling
\* connect; the session is not connected when an iteration of the loop
\* starts; and a session the script connected is not connected any more when
\* script_main is over.
C27_OneSession ==
    /\ (pc # "multi-start" /\ connected /\ tab_calls = <<>>) =>
          /\ pc = "multi-raised"
          /\ exc = "ScriptError"
          /\ EventsOf("import_device_list") = {}
          /\ attempted = <<>>
    /\ pc = "multi-loop" => ~connected
    /\ (LoopOver /\ tab_calls # <<>>) => ~connected

\* What extract_cdp_data stores for a row: (system name, remote interface).
CdpPair(e) == <<CdpSystemName(e), long_int_name(e[4])>>

\* C29 (later duplicates are ignored): when extract_cdp_data's loop body runs
\* on a row whose local interface was not seen before, the map gets the
\* row's (system name, remote interface) under that interface; when it runs
\* on a row whose local interface was seen before, the map has an entry for
\* that interface afterwards only if it had one before, and the entry is
\* what it was; and every key of the map is a local interface that was seen.
C29_FirstRecordKept ==
    [][ (pc = "cdp" /\ rows' = rows + 1) =>
            LET local_intf == long_int_name(entry'[1])
            IN  /\ local_intf \notin found_intfs =>
                      /\ local_intf \in DOMAIN description_data'
                      /\ description_data'[local_intf] = CdpPair(entry')
                /\ local_intf \in found_intfs =>
                      /\ local_intf \in DOMAIN description_data' =>
                            /\ local_intf \in DOMAIN description_data
                            /\ description_data'[local_intf] = description_data[local_intf]
                /\ DOMAIN description_data' \subseteq found_intfs' ]_vars

\* C29 witness: two rows for one local interface were read, and the map
\* holds for it a pair that is not the one of the second row.
C29_Witness ==
    /\ pc = "cdp"
    /\ rows = 2
    /\ Cardinality(found_intfs) = 1
    /\ long_int_name(entry[1]) \in DOMAIN description_data
    /\ description_data[long_int_name(entry[1])] # CdpPair(entry)

\* The loop of lines 153-193 run from its start over intf_list, on the
\* neighbor map as it is and on a description table.
SecondRun(lookup) == RunLoop(LoopStart, intf_list, 1, description_data, lookup)

\* C30 (convergence after apply): once the plan is complete, the loop run
\* again on the same neighbor map and on the description table the device
\* has after taking config_commands raises nothing and yields an empty
\* config_commands and an empty rollback; and taking config_commands a
\* second time leaves that table as it is.
C30_Convergence ==
    pc = "done" =>
        LET updated == ApplyLines(ex_desc_lookup, config_commands)
        IN  /\ ~SecondRun(updated).raised
            /\ SecondRun(updated).config_commands = <<>>
            /\ SecondRun(updated).rollback = <<>>
            /\ SameDescriptions(ApplyLines(updated, config_commands), updated)

\* C30 witness: a complete plan that changes an interface with an existing
\* description and a port-channel.
C30_Witness ==
    /\ pc = "done"
    /\ \E i \in InterfacesIn(config_commands) : ExistingDesc(ex_desc_lookup, i) # ""
    /\ \E i \in InterfacesIn(config_commands) : IsPortChannel(i)
    /\ SecondRun(ApplyLines(ex_desc_lookup, config_commands)).config_commands = <<>>

====
